---- MODULE Spec2Model ----
(***************************************************************************)
(* Graph resolver with kernel fusion (compute_graph/resolve.rs) and the    *)
(* elementwise kernel (element_wise.rs) of wgpu-kernel-fusion.             *)
(*                                                                         *)
(* Spec       : a graph store that is filled by insert operations, a       *)
(*              command encoder that resolve appends passes to, and the    *)
(*              device buffers that a submit of the encoder rewrites.      *)
(* SpecKernel : one UntypedElementWiseKernel instance that is run on       *)
(*              several tensor views in sequence.                          *)
(***************************************************************************)
EXTENDS Integers, Sequences, FiniteSets, TLC

VARIABLES
    nodes,      \* the graph store: key k selects the op record nodes[k]
    counter,    \* ElementWiseFunction::new's process-wide COUNTER
    buffers,    \* device memory: buffer id b holds the elements buffers[b]
    encoder,    \* the passes recorded on the command encoder, oldest first
    batch,      \* the resolve calls made on the current encoder
    before,     \* device memory as it was when the last submit began
    submitted,  \* TRUE when the passes of the encoder have been executed
    resolves,   \* the number of resolve calls made so far
    kernel,     \* SpecKernel: the kernel instance (functions and two slots)
    runs,       \* SpecKernel: one record per run_with_query call so far
    pc,         \* SpecSteps: the statement the run_with_query call in progress is at
    trace,      \* SpecSteps: the device and encoder calls made so far, oldest first
    threads     \* SpecThreads: each thread's position in ElementWiseFunction::new

vars == <<nodes, counter, buffers, encoder, batch, before, submitted, resolves,
          kernel, runs, pc, trace, threads>>

\* what only the statement-level specifications change
stepVars == <<pc, trace, threads>>

(***************************************************************************)
(* Bounds of the model.                                                    *)
(***************************************************************************)
MaxNodes == 3          \* Spec: op records in the store
MaxResolves == 1       \* Spec, SpecChain, SpecFusion: resolve calls
MaxChainNodes == 3     \* SpecChain: op records in the store
MaxFusionNodes == 4    \* SpecFusion: op records in the store
MaxRepeatNodes == 2    \* SpecRepeat: op records in the store
MaxRepeats == 2        \* SpecRepeat: resolve calls
MaxOrderNodes == 4                \* nodes of a graph of binary nodes
MaxRankNodes == 3                 \* nodes of a graph over leaves of any rank
MaxProducerNodes == 4             \* nodes of a graph grown at its newest node
MaxDenseGroups == 1               \* multiples of a workgroup's span among the dense sizes
MaxDenseRuns == 2                 \* runs of one kernel on dense views
MaxStridedGroups == 1             \* workgroups filled along the long axis of a strided view
MaxStridedRuns == 2               \* runs of one kernel on strided views
MaxEmitLen == 3                   \* SpecEmit: functions of the kernel that is emitted
MaxEmits == 2                     \* SpecEmit: modify_data calls on one kernel string
MaxTreeNodes == 5                 \* SpecTree: op records in the store
MaxThreads == 3                   \* SpecThreads: threads that construct functions
MaxConstructions == 4             \* SpecThreads: ElementWiseFunction::new calls
MaxStepNodes == 2                 \* SpecSteps: op records in the store
MaxStepRuns == 2                  \* SpecSteps: direct run_with_query calls
MaxRuns == 3           \* SpecKernel: run_with_query calls
ElementModulus == 4096 \* element values are integers modulo this

(***************************************************************************)
(* Program constants.                                                      *)
(***************************************************************************)
TILE_SIZE == 8
MaxBlocksize == 256
MaxRank == 3

(***************************************************************************)
(* Sequences and arithmetic.                                               *)
(***************************************************************************)
RECURSIVE Product(_)
Product(s) == IF s = <<>> THEN 1 ELSE Head(s) * Product(Tail(s))

DivCeil(a, b) == (a + b - 1) \div b

Reverse(s) == [i \in 1..Len(s) |-> s[Len(s) + 1 - i]]

\* integer element arithmetic wraps around
Wrap(x) == x % ElementModulus

RECURSIVE Power(_, _)
Power(b, e) == IF e = 0 THEN 1 ELSE b * Power(b, e - 1)

\* floor(256^(1/rank)): the largest b with b^rank <= 256
FloorRoot(rank) ==
    CHOOSE b \in 1..MaxBlocksize :
        Power(b, rank) <= MaxBlocksize /\ Power(b + 1, rank) > MaxBlocksize

(***************************************************************************)
(* Tensor layouts and handles (TensorData).                                *)
(***************************************************************************)
\* row-major strides of a freshly allocated tensor
ContiguousStrides(shape) ==
    [i \in 1..Len(shape) |-> Product(SubSeq(shape, i + 1, Len(shape)))]

TensorData(buffer, offset, shape, strides) ==
    [buffer |-> buffer, offset |-> offset, shape |-> shape,
     strides |-> strides, dtype |-> "i32"]

NewTensor(buffer, shape) == TensorData(buffer, 0, shape, ContiguousStrides(shape))

Rank(t) == Len(t.shape)

\* walks the axes from the last to the first, expecting the row-major stride
RECURSIVE ContiguousFrom(_, _, _, _)
ContiguousFrom(shape, strides, i, expected) ==
    IF i = 0 THEN TRUE
    ELSE /\ strides[i] = expected
         /\ ContiguousFrom(shape, strides, i - 1, expected * shape[i])

IsContiguous(t) == ContiguousFrom(t.shape, t.strides, Len(t.shape), 1)

\* all multi-indices within a shape, as sequences of 0-based coordinates
RECURSIVE MultiIndices(_)
MultiIndices(shape) ==
    IF shape = <<>> THEN {<<>>}
    ELSE {<<h>> \o r : h \in 0..(Head(shape) - 1), r \in MultiIndices(Tail(shape))}

RECURSIVE Dot(_, _)
Dot(a, b) == IF a = <<>> THEN 0 ELSE Head(a) * Head(b) + Dot(Tail(a), Tail(b))

\* 0-based buffer address of a multi-index of a view
Address(t, index) == t.offset + Dot(t.strides, index)

\* the multi-index of the j-th element (0-based) in row-major order
Unflatten(j, shape) ==
    [i \in 1..Len(shape) |->
        (j \div Product(SubSeq(shape, i + 1, Len(shape)))) % shape[i]]

\* the elements of a view in row-major order, read from memory mem
Read(t, mem) ==
    [j \in 1..Product(t.shape) |->
        mem[t.buffer][Address(t, Unflatten(j - 1, t.shape)) + 1]]

(***************************************************************************)
(* Element functions.                                                      *)
(***************************************************************************)
\* the bodies that the operator sugar builds: x + 1 and x * 2
Operations == {"data = data + 1;", "data = data * 2;"}

OperationName(operation) ==
    IF operation = "data = data + 1;" THEN "add_const" ELSE "multiply_const"

\* ElementWiseFunction::new(operation).with_name(name), with the id it draws
ElementWiseFunction(operation, id) ==
    [name |-> OperationName(operation), name_id |-> id, operation |-> operation]

\* the effect of one body on the live variable data
ApplyOperation(operation, data) ==
    IF operation = "data = data + 1;" THEN Wrap(data + 1) ELSE Wrap(data * 2)

\* the bodies emitted in list order: the reversal forgotten
ModifyDataInListOrder(functions) ==
    [i \in 1..Len(functions) |-> functions[i].operation]

\* modify_data(inline = true): the bodies are emitted in reversed list order
ModifyData(functions) ==
    [i \in 1..Len(functions) |-> functions[Len(functions) + 1 - i].operation]

\* ElementWiseFunction::call: the text unary_{name_id}({data}); a call
\* expression is kept as the ids of its callees, the outermost first, and
\* the bare variable data as the empty expression
Call(f, data) == <<f.name_id>> \o data

\* a fold over the list as it stands, the reversal forgotten
RECURSIVE FoldCallsInListOrder(_, _, _)
FoldCallsInListOrder(functions, i, acc) ==
    IF i = 0 THEN acc
    ELSE FoldCallsInListOrder(functions, i - 1,
                              Call(functions[Len(functions) + 1 - i], acc))

\* functions.iter().rev().fold("data", |acc, f| f.call(acc)), from the
\* i-th function down to the first
RECURSIVE FoldCalls(_, _, _)
FoldCalls(functions, i, acc) ==
    IF i = 0 THEN acc
    ELSE FoldCalls(functions, i - 1, Call(functions[i], acc))

\* modify_data(inline = false): the statement data = {call};
ModifyDataCalls(functions) == FoldCalls(functions, Len(functions), <<>>)

\* add_functions: one definition unary_{name_id} per function unless inline
AddFunctions(functions, inline) ==
    IF inline THEN <<>>
    ELSE [i \in 1..Len(functions) |->
             [name_id |-> functions[i].name_id, operation |-> functions[i].operation]]

\* the value a sequence of emitted bodies leaves in data
RECURSIVE RunBodies(_, _)
RunBodies(bodies, data) ==
    IF bodies = <<>> THEN data
    ELSE RunBodies(Tail(bodies), ApplyOperation(Head(bodies), data))

(***************************************************************************)
(* The graph store.                                                        *)
(***************************************************************************)
Kinds == {"ElementWise", "PairWise", "MatMul", "Reduce", "MapLayout",
          "Resize", "SliceAssign", "Tensor"}

NoKey == 0

BlankRecord ==
    [kind |-> "Tensor", value |-> NoKey, first |-> NoKey, second |-> NoKey,
     input |-> NoKey, function |-> "none", axis |-> 0, op |-> <<>>,
     new_shape |-> <<>>, tensor |-> "none"]

ElementWiseOperation(value, function) ==
    [BlankRecord EXCEPT !.kind = "ElementWise", !.value = value, !.function = function]

PairWiseOperation(first, second, function) ==
    [BlankRecord EXCEPT !.kind = "PairWise", !.first = first, !.second = second,
                        !.function = function]

MatMulOperation(first, second) ==
    [BlankRecord EXCEPT !.kind = "MatMul", !.first = first, !.second = second]

ReduceOperation(value, axis, function) ==
    [BlankRecord EXCEPT !.kind = "Reduce", !.value = value, !.axis = axis,
                        !.function = function]

MapLayoutOperation(input, op) ==
    [BlankRecord EXCEPT !.kind = "MapLayout", !.input = input, !.op = op]

ResizeOperation(input, new_shape) ==
    [BlankRecord EXCEPT !.kind = "Resize", !.input = input, !.new_shape = new_shape]

SliceAssignOperation(input, value, slices) ==
    [BlankRecord EXCEPT !.kind = "SliceAssign", !.input = input, !.value = value,
                        !.op = slices]

TensorRecord(tensor) == [BlankRecord EXCEPT !.tensor = tensor]

Keys == 1..Len(nodes)

KindOf(key) == nodes[key].kind

\* the keys an op record refers to
Inputs(record) ==
    CASE record.kind = "ElementWise" -> <<record.value>>
      [] record.kind = "Reduce" -> <<record.value>>
      [] record.kind = "PairWise" -> <<record.first, record.second>>
      [] record.kind = "MatMul" -> <<record.first, record.second>>
      [] record.kind = "MapLayout" -> <<record.input>>
      [] record.kind = "Resize" -> <<record.input>>
      [] record.kind = "SliceAssign" -> <<record.input, record.value>>
      [] OTHER -> <<>>

\* a slice: one half-open range <<start, end>> per axis
SliceShape(slices) == [i \in 1..Len(slices) |-> slices[i][2] - slices[i][1]]

RemoveAxis(shape, axis) ==
    [i \in 1..(Len(shape) - 1) |-> IF i <= axis THEN shape[i] ELSE shape[i + 1]]

\* the shape static shape inference predicts for a key (axis is 0-based)
RECURSIVE ShapeOf(_)
ShapeOf(key) ==
    LET record == nodes[key] IN
    CASE record.kind = "Tensor" -> record.tensor.shape
      [] record.kind = "ElementWise" -> ShapeOf(record.value)
      [] record.kind = "PairWise" -> ShapeOf(record.first)
      [] record.kind = "MatMul" ->
            <<ShapeOf(record.first)[1], ShapeOf(record.second)[2]>>
      [] record.kind = "Reduce" -> RemoveAxis(ShapeOf(record.value), record.axis)
      [] record.kind = "MapLayout" -> SliceShape(record.op)
      [] record.kind = "Resize" -> record.new_shape
      [] OTHER -> ShapeOf(record.input)

(***************************************************************************)
(* The elementwise kernel (UntypedElementWiseKernel).                      *)
(***************************************************************************)
\* an empty OnceLock is <<>>, a filled one holds its module: <<module>>
UntypedElementWiseKernel(functions, datatype) ==
    [functions |-> functions, dense_kernel |-> <<>>, sparse_kernel |-> <<>>,
     datatype |-> datatype]

\* TensorLayout::from(layout).data: offset, shape..., stride...
LayoutData(t) == <<t.offset>> \o t.shape \o t.strides

\* what the emitted source depends on: the constants, the workgroup size
\* (BLOCKSIZE once on the dense path, once per axis otherwise), the layout
\* struct of rank fields and the bodies in the order they are emitted
\* an assertion that lets rank 3 fail as well
RankSupportedBelowMax(rank) == rank < MaxRank

\* assert!(rank <= 3, "TensorLayout only supports up to 3 rank tensors")
RankSupported(rank) == rank <= MaxRank

TiledMap(k, blocksize, inline, contiguous, t) ==
    [blocksize |-> blocksize, inline |-> inline, contiguous |-> contiguous,
     rank |-> Rank(t), dtype |-> k.datatype, body |-> ModifyData(k.functions),
     panicked |-> ~RankSupported(Rank(t))]

\* the dense block size on both paths
MaxBlocksizeDense(t) == MaxBlocksize

MaxBlocksizeFor(t) == IF IsContiguous(t) THEN MaxBlocksize ELSE FloorRoot(Rank(t))

\* @workgroup_size of the emitted shader: BLOCKSIZE once on the dense path,
\* once per axis otherwise (the sizes not written are 1)
WorkgroupSize(module) ==
    [i \in 1..3 |->
        IF i = 1 \/ (~module.contiguous /\ i <= module.rank)
        THEN module.blocksize ELSE 1]

\* a slot that takes the module of every run
GetOrReplace(slot, module) == <<module>>

\* OnceLock::get_or_init
GetOrInit(slot, module) == IF slot = <<>> THEN <<module>> ELSE slot

\* a grid that counts axis 1 on x and axis 0 on y
WorkgroupsAxesSwapped(t) ==
    LET per == TILE_SIZE * MaxBlocksizeFor(t)
        axis(i) == IF i <= Rank(t) THEN DivCeil(t.shape[i], per) ELSE 1
    IN  IF IsContiguous(t) THEN <<DivCeil(Product(t.shape), per), 1, 1>>
        ELSE <<axis(2), axis(1), axis(3)>>

\* a grid whose counts are rounded down
WorkgroupsRoundedDown(t) ==
    LET per == TILE_SIZE * MaxBlocksizeFor(t)
        axis(i) == IF i <= Rank(t) THEN t.shape[i] \div per ELSE 1
    IN  IF IsContiguous(t) THEN <<Product(t.shape) \div per, 1, 1>>
        ELSE <<axis(1), axis(2), axis(3)>>

\* the dispatch grid of run_with_query
Workgroups(t) ==
    LET per == TILE_SIZE * MaxBlocksizeFor(t)
        axis(i) == IF i <= Rank(t) THEN DivCeil(t.shape[i], per) ELSE 1
    IN  IF IsContiguous(t) THEN <<DivCeil(Product(t.shape), per), 1, 1>>
        ELSE <<axis(1), axis(2), axis(3)>>

BlankPass ==
    [kind |-> "none", module |-> <<>>, uniform |-> <<>>, workgroups |-> <<>>,
     inputs |-> <<>>, output |-> "none", pre |-> <<>>, post |-> <<>>,
     function |-> "none", param |-> <<>>, timestamps |-> FALSE]

QueryResolve == [BlankPass EXCEPT !.kind = "QueryResolve"]

\* a run that keeps its module in the dense slot whatever the layout
RunWithQueryOneSlot(k, t, query, enc) ==
    LET contiguous == IsContiguous(t)
        source == TiledMap(k, MaxBlocksizeFor(t), TRUE, contiguous, t)
        k2 == [k EXCEPT !.dense_kernel = GetOrInit(@, source)]
        pass == [BlankPass EXCEPT !.kind = "ElementWise", !.module = k2.dense_kernel[1],
                     !.uniform = LayoutData(t), !.workgroups = Workgroups(t),
                     !.inputs = <<t>>, !.output = t, !.timestamps = query]
    IN  [kernel |-> k2,
         encoder |-> IF query THEN enc \o <<pass, QueryResolve>> ELSE Append(enc, pass)]

\* run_with_query: the kernel with its slots afterwards, and the encoder
RunWithQuery(k, t, query, enc) ==
    LET contiguous == IsContiguous(t)
        source == TiledMap(k, MaxBlocksizeFor(t), TRUE, contiguous, t)
        k2 == IF contiguous
              THEN [k EXCEPT !.dense_kernel = GetOrInit(@, source)]
              ELSE [k EXCEPT !.sparse_kernel = GetOrInit(@, source)]
        module == IF contiguous THEN k2.dense_kernel[1] ELSE k2.sparse_kernel[1]
        pass == [BlankPass EXCEPT !.kind = "ElementWise", !.module = module,
                     !.uniform = LayoutData(t), !.workgroups = Workgroups(t),
                     !.inputs = <<t>>, !.output = t, !.timestamps = query]
    IN  [kernel |-> k2,
         encoder |-> IF query THEN enc \o <<pass, QueryResolve>> ELSE Append(enc, pass)]

\* the value of a call expression: the callee named by the outermost id is
\* applied to the value of its argument; fn unary_{name_id}(input) runs its
\* body on a copy of input and returns it
RECURSIVE EvalCall(_, _, _)
EvalCall(call, definitions, data) ==
    IF call = <<>> THEN data
    ELSE LET callee == CHOOSE d \in {definitions[i] : i \in 1..Len(definitions)} :
                           d.name_id = Head(call)
         IN  ApplyOperation(callee.operation, EvalCall(Tail(call), definitions, data))

(***************************************************************************)
(* Execution of an elementwise pass by the device.                         *)
(***************************************************************************)
\* the fields of the uniform as the module's layout struct names them
UniformOffset(pass) == pass.uniform[1]
UniformShape(pass) == [i \in 1..pass.module.rank |-> pass.uniform[1 + i]]
UniformStride(pass) ==
    [i \in 1..pass.module.rank |-> pass.uniform[1 + pass.module.rank + i]]

\* invocations along one axis of the grid and the indices each one handles
Invocations(pass, axis) == pass.workgroups[axis] * pass.module.blocksize

\* dense body: index = global_id.x * TILE_SIZE + k, guarded by index < N
DenseHandled(pass, index) ==
    /\ index < Product(UniformShape(pass))
    /\ index \div TILE_SIZE < Invocations(pass, 1)

\* strided body: merged_index_i = global_id.i * TILE_SIZE + local_index_i,
\* guarded by merged_index_i < shape_i on every axis
StridedHandled(pass, index) ==
    \A i \in 1..pass.module.rank :
        /\ index[i] < UniformShape(pass)[i]
        /\ index[i] \div TILE_SIZE < Invocations(pass, i)

\* the 0-based buffer addresses the pass loads, transforms and stores
Touched(pass, length) ==
    IF pass.module.contiguous
    THEN {a \in 0..(length - 1) : DenseHandled(pass, a)}
    ELSE {a \in 0..(length - 1) :
            \E index \in MultiIndices(UniformShape(pass)) :
                /\ StridedHandled(pass, index)
                /\ a = UniformOffset(pass) + Dot(UniformStride(pass), index)}

ExecElementWise(pass, mem) ==
    LET b == pass.inputs[1].buffer
        touched == Touched(pass, Len(mem[b]))
    IN  [mem EXCEPT ![b] =
            [a \in 1..Len(mem[b]) |->
                IF (a - 1) \in touched
                THEN RunBodies(pass.module.body, mem[b][a])
                ELSE mem[b][a]]]

(***************************************************************************)
(* The kernel builders of the sibling modules: pairwise, reduce, matmul,   *)
(* resize and slice-assign.  Each records one pass; all but slice-assign   *)
(* write a freshly allocated buffer.                                       *)
(***************************************************************************)
Zeros(n) == [i \in 1..n |-> 0]

\* a new buffer of the device, zero-initialised
Allocate(mem, shape) == Append(mem, Zeros(Product(shape)))

ReadAt(t, mem, index) == mem[t.buffer][Address(t, index) + 1]

RECURSIVE Sum(_)
Sum(s) == IF s = <<>> THEN 0 ELSE Wrap(Head(s) + Sum(Tail(s)))

BinaryFunctions == {"add"}

ApplyBinary(function, a, b) == IF function = "add" THEN Wrap(a + b) ELSE Wrap(a - b)

UntypedPairWiseKernel(function, datatype) ==
    [function |-> function, datatype |-> datatype,
     pre_element_wise |-> <<UntypedElementWiseKernel(<<>>, datatype),
                            UntypedElementWiseKernel(<<>>, datatype)>>,
     post_element_wise |-> UntypedElementWiseKernel(<<>>, datatype)]

UntypedReduceKernel(function, datatype) ==
    [function |-> function, datatype |-> datatype,
     pre_element_wise |-> UntypedElementWiseKernel(<<>>, datatype),
     post_element_wise |-> UntypedElementWiseKernel(<<>>, datatype)]

\* each run returns the tensor handle, the encoder and device memory
PairWiseRun(k, first, second, enc, mem) ==
    LET out == NewTensor(Len(mem) + 1, first.shape)
        pass == [BlankPass EXCEPT !.kind = "PairWise", !.inputs = <<first, second>>,
                     !.output = out, !.function = k.function,
                     !.pre = <<k.pre_element_wise[1].functions,
                               k.pre_element_wise[2].functions>>,
                     !.post = k.post_element_wise.functions]
    IN  [tensor |-> out, encoder |-> Append(enc, pass),
         buffers |-> Allocate(mem, out.shape)]

ReduceRun(k, input, axis, enc, mem) ==
    LET out == NewTensor(Len(mem) + 1, RemoveAxis(input.shape, axis))
        pass == [BlankPass EXCEPT !.kind = "Reduce", !.inputs = <<input>>,
                     !.output = out, !.function = k.function, !.param = <<axis>>,
                     !.pre = <<k.pre_element_wise.functions>>,
                     !.post = k.post_element_wise.functions]
    IN  [tensor |-> out, encoder |-> Append(enc, pass),
         buffers |-> Allocate(mem, out.shape)]

MatMulRun(first, second, enc, mem) ==
    LET out == NewTensor(Len(mem) + 1, <<first.shape[1], second.shape[2]>>)
        pass == [BlankPass EXCEPT !.kind = "MatMul", !.inputs = <<first, second>>,
                     !.output = out]
    IN  [tensor |-> out, encoder |-> Append(enc, pass),
         buffers |-> Allocate(mem, out.shape)]

ResizeRun(new_shape, input, enc, mem) ==
    LET out == NewTensor(Len(mem) + 1, new_shape)
        pass == [BlankPass EXCEPT !.kind = "Resize", !.inputs = <<input>>,
                     !.output = out]
    IN  [tensor |-> out, encoder |-> Append(enc, pass),
         buffers |-> Allocate(mem, out.shape)]

SliceAssignRun(slices, input, value, enc, mem) ==
    LET pass == [BlankPass EXCEPT !.kind = "SliceAssign", !.inputs = <<input, value>>,
                     !.output = input, !.param = slices]
    IN  [tensor |-> input, encoder |-> Append(enc, pass), buffers |-> mem]

\* LayoutTransform: a slice keeps the buffer and moves offset and shape
MapLayoutRun(slices, input) ==
    TensorData(input.buffer,
               input.offset + Dot(input.strides, [i \in 1..Len(slices) |-> slices[i][1]]),
               SliceShape(slices), input.strides)

(***************************************************************************)
(* Execution of the other passes by the device.                            *)
(***************************************************************************)
\* the output view's elements, given the value of each multi-index
WriteView(out, mem, value(_)) ==
    [mem EXCEPT ![out.buffer] =
        [a \in 1..Len(mem[out.buffer]) |->
            IF \E index \in MultiIndices(out.shape) : Address(out, index) + 1 = a
            THEN value(CHOOSE index \in MultiIndices(out.shape) :
                           Address(out, index) + 1 = a)
            ELSE mem[out.buffer][a]]]

ExecPairWise(pass, mem) ==
    LET value(index) ==
            RunBodies(ModifyData(pass.post),
                ApplyBinary(pass.function,
                    RunBodies(ModifyData(pass.pre[1]), ReadAt(pass.inputs[1], mem, index)),
                    RunBodies(ModifyData(pass.pre[2]), ReadAt(pass.inputs[2], mem, index))))
    IN  WriteView(pass.output, mem, value)

\* the multi-index of the input at position r along the reduced axis
InsertAxis(index, axis, r) ==
    [i \in 1..(Len(index) + 1) |->
        IF i <= axis THEN index[i] ELSE IF i = axis + 1 THEN r ELSE index[i - 1]]

ExecReduce(pass, mem) ==
    LET input == pass.inputs[1]
        axis == pass.param[1]
        value(index) ==
            RunBodies(ModifyData(pass.post),
                Sum([r \in 1..input.shape[axis + 1] |->
                    RunBodies(ModifyData(pass.pre[1]),
                        ReadAt(input, mem, InsertAxis(index, axis, r - 1)))]))
    IN  WriteView(pass.output, mem, value)

ExecMatMul(pass, mem) ==
    LET a == pass.inputs[1]
        b == pass.inputs[2]
        value(index) ==
            Sum([k \in 1..a.shape[2] |->
                Wrap(ReadAt(a, mem, <<index[1], k - 1>>)
                     * ReadAt(b, mem, <<k - 1, index[2]>>))])
    IN  WriteView(pass.output, mem, value)

ExecResize(pass, mem) ==
    LET input == pass.inputs[1]
        value(index) ==
            IF \A i \in 1..Len(index) : index[i] < input.shape[i]
            THEN ReadAt(input, mem, index) ELSE 0
    IN  WriteView(pass.output, mem, value)

ExecSliceAssign(pass, mem) ==
    LET region == MapLayoutRun(pass.param, pass.inputs[1])
        value(index) == ReadAt(pass.inputs[2], mem, index)
    IN  WriteView(region, mem, value)

ExecPass(pass, mem) ==
    CASE pass.kind = "ElementWise" -> ExecElementWise(pass, mem)
      [] pass.kind = "PairWise" -> ExecPairWise(pass, mem)
      [] pass.kind = "Reduce" -> ExecReduce(pass, mem)
      [] pass.kind = "MatMul" -> ExecMatMul(pass, mem)
      [] pass.kind = "Resize" -> ExecResize(pass, mem)
      [] pass.kind = "SliceAssign" -> ExecSliceAssign(pass, mem)
      [] OTHER -> mem

\* queue.submit: the recorded passes run in recording order
RECURSIVE Execute(_, _)
Execute(enc, mem) ==
    IF enc = <<>> THEN mem ELSE Execute(Tail(enc), ExecPass(Head(enc), mem))

(***************************************************************************)
(* The resolver (ComputeGraphInner).  Every resolver takes the encoder and *)
(* device memory and returns the tensor handle with both as it left them.  *)
(***************************************************************************)
RECURSIVE Resolve(_, _, _)

\* a walk that lists the functions nearest the producer first
RECURSIVE CollectFromProducerFirst(_, _)
CollectFromProducerFirst(functions, current_key) ==
    IF nodes[current_key].kind = "ElementWise"
    THEN CollectFromProducerFirst(<<nodes[current_key].function>> \o functions,
                                  nodes[current_key].value)
    ELSE [functions |-> functions, key |-> current_key]

\* a walk that takes the function of one node only
CollectOne(functions, current_key) ==
    IF nodes[current_key].kind = "ElementWise"
    THEN [functions |-> Append(functions, nodes[current_key].function),
          key |-> nodes[current_key].value]
    ELSE [functions |-> functions, key |-> current_key]

\* the loop of collect_element_wise_ops from current_key on
RECURSIVE CollectFrom(_, _)
CollectFrom(functions, current_key) ==
    IF nodes[current_key].kind = "ElementWise"
    THEN CollectFrom(Append(functions, nodes[current_key].function),
                     nodes[current_key].value)
    ELSE [functions |-> functions, key |-> current_key]

CollectElementWiseOps(key) == CollectFrom(<<>>, key)

\* the leaf copied into a buffer of its own by a pass
ResolveTensorByCopy(key, enc, mem) ==
    ResizeRun(nodes[key].tensor.shape, nodes[key].tensor, enc, mem)

ResolveTensor(key, enc, mem) ==
    [tensor |-> nodes[key].tensor, encoder |-> enc, buffers |-> mem]

\* the reduce run on its resolved input, the chain below it not peeled
ResolveReduceThenNoPre(key, then, enc, mem) ==
    LET operation == nodes[key]
        input == Resolve(operation.value, enc, mem)
        dtype == input.tensor.dtype
        k == [UntypedReduceKernel(operation.function, dtype) EXCEPT
                 !.post_element_wise = UntypedElementWiseKernel(then, dtype)]
    IN  ReduceRun(k, input.tensor, operation.axis, input.encoder, input.buffers)

ResolveReduceThen(key, then, enc, mem) ==
    LET operation == nodes[key]
        fused == nodes[operation.value].kind = "ElementWise"
        collected == CollectElementWiseOps(operation.value)
        element_wise_before == IF fused THEN collected.functions ELSE <<>>
        input_key == IF fused THEN collected.key ELSE operation.value
        input == Resolve(input_key, enc, mem)
        dtype == input.tensor.dtype
        k == [UntypedReduceKernel(operation.function, dtype) EXCEPT
                 !.post_element_wise = UntypedElementWiseKernel(then, dtype),
                 !.pre_element_wise = UntypedElementWiseKernel(element_wise_before, dtype)]
    IN  ReduceRun(k, input.tensor, operation.axis, input.encoder, input.buffers)

ResolveReduce(key, enc, mem) == ResolveReduceThen(key, <<>>, enc, mem)

\* the two pre stages handed over in the wrong order
ResolvePairWiseThenSwapped(key, then, enc, mem) ==
    LET operation == nodes[key]
        collected_first == CollectElementWiseOps(operation.first)
        collected_second == CollectElementWiseOps(operation.second)
        first == Resolve(collected_first.key, enc, mem)
        second == Resolve(collected_second.key, first.encoder, first.buffers)
        dtype == first.tensor.dtype
        k == [UntypedPairWiseKernel(operation.function, dtype) EXCEPT
                 !.pre_element_wise =
                     <<UntypedElementWiseKernel(collected_second.functions, dtype),
                       UntypedElementWiseKernel(collected_first.functions, dtype)>>,
                 !.post_element_wise = UntypedElementWiseKernel(then, dtype)]
    IN  PairWiseRun(k, first.tensor, second.tensor, second.encoder, second.buffers)

ResolvePairWiseThen(key, then, enc, mem) ==
    LET operation == nodes[key]
        fused_first == nodes[operation.first].kind = "ElementWise"
        collected_first == CollectElementWiseOps(operation.first)
        first_input == IF fused_first THEN collected_first.key ELSE operation.first
        first_pre_element_wise == IF fused_first THEN collected_first.functions ELSE <<>>
        fused_second == nodes[operation.second].kind = "ElementWise"
        collected_second == CollectElementWiseOps(operation.second)
        second_input == IF fused_second THEN collected_second.key ELSE operation.second
        second_pre_element_wise ==
            IF fused_second THEN collected_second.functions ELSE <<>>
        first == Resolve(first_input, enc, mem)
        second == Resolve(second_input, first.encoder, first.buffers)
        dtype == first.tensor.dtype
        k == [UntypedPairWiseKernel(operation.function, dtype) EXCEPT
                 !.pre_element_wise =
                     <<UntypedElementWiseKernel(first_pre_element_wise, dtype),
                       UntypedElementWiseKernel(second_pre_element_wise, dtype)>>,
                 !.post_element_wise = UntypedElementWiseKernel(then, dtype)]
    IN  PairWiseRun(k, first.tensor, second.tensor, second.encoder, second.buffers)

ResolvePairWise(key, enc, mem) == ResolvePairWiseThen(key, <<>>, enc, mem)

\* the last branch of resolve_element_wise: materialize the producer and run
\* the chain over its tensor, which is also the tensor handed back
ResolveStandalone(functions, input_key, enc, mem) ==
    LET input == Resolve(input_key, enc, mem)
        k == UntypedElementWiseKernel(functions, input.tensor.dtype)
        run == RunWithQuery(k, input.tensor, FALSE, input.encoder)
    IN  [tensor |-> input.tensor, encoder |-> run.encoder, buffers |-> input.buffers]

\* a chain that always runs as a kernel of its own
ResolveElementWiseUnfused(key, enc, mem) ==
    LET collected == CollectElementWiseOps(key)
    IN  ResolveStandalone(collected.functions, collected.key, enc, mem)

ResolveElementWise(key, enc, mem) ==
    LET collected == CollectElementWiseOps(key)
        functions == collected.functions
        input == collected.key
    IN  IF nodes[input].kind = "Reduce"
        THEN ResolveReduceThen(input, functions, enc, mem)
        ELSE IF nodes[input].kind = "PairWise"
        THEN ResolvePairWiseThen(input, functions, enc, mem)
        ELSE ResolveStandalone(functions, input, enc, mem)

\* the second operand resolved before the first
ResolveMatMulRightFirst(key, enc, mem) ==
    LET operation == nodes[key]
        second == Resolve(operation.second, enc, mem)
        first == Resolve(operation.first, second.encoder, second.buffers)
    IN  MatMulRun(first.tensor, second.tensor, first.encoder, first.buffers)

ResolveMatMul(key, enc, mem) ==
    LET operation == nodes[key]
        first == Resolve(operation.first, enc, mem)
        second == Resolve(operation.second, first.encoder, first.buffers)
    IN  MatMulRun(first.tensor, second.tensor, second.encoder, second.buffers)

\* the view materialized by a pass into a buffer of its own
ResolveSliceByCopy(key, enc, mem) ==
    LET operation == nodes[key]
        input == Resolve(operation.input, enc, mem)
        view == MapLayoutRun(operation.op, input.tensor)
    IN  ResizeRun(view.shape, view, input.encoder, input.buffers)

ResolveSlice(key, enc, mem) ==
    LET operation == nodes[key]
        input == Resolve(operation.input, enc, mem)
    IN  [input EXCEPT !.tensor = MapLayoutRun(operation.op, input.tensor)]

\* a resize that takes the chain on its input as a stage of its own kernel
ResolveResizeAbsorbing(key, enc, mem) ==
    LET operation == nodes[key]
        collected == IF nodes[operation.input].kind = "ElementWise"
                     THEN CollectElementWiseOps(operation.input)
                     ELSE [functions |-> <<>>, key |-> operation.input]
        input == Resolve(collected.key, enc, mem)
        run == ResizeRun(operation.new_shape, input.tensor, input.encoder, input.buffers)
    IN  [run EXCEPT !.encoder[Len(run.encoder)].pre = <<collected.functions>>]

ResolveResize(key, enc, mem) ==
    LET operation == nodes[key]
        input == Resolve(operation.input, enc, mem)
    IN  ResizeRun(operation.new_shape, input.tensor, input.encoder, input.buffers)

\* the value resolved into an encoder of its own, which is then handed on
ResolveSliceAssignOwnEncoder(key, enc, mem) ==
    LET operation == nodes[key]
        input == Resolve(operation.input, enc, mem)
        value == Resolve(operation.value, <<>>, input.buffers)
    IN  SliceAssignRun(operation.op, input.tensor, value.tensor,
                       value.encoder, value.buffers)

ResolveSliceAssign(key, enc, mem) ==
    LET operation == nodes[key]
        input == Resolve(operation.input, enc, mem)
        value == Resolve(operation.value, input.encoder, input.buffers)
    IN  SliceAssignRun(operation.op, input.tensor, value.tensor,
                       value.encoder, value.buffers)

Resolve(key, enc, mem) ==
    CASE nodes[key].kind = "ElementWise" -> ResolveElementWise(key, enc, mem)
      [] nodes[key].kind = "PairWise" -> ResolvePairWise(key, enc, mem)
      [] nodes[key].kind = "MatMul" -> ResolveMatMul(key, enc, mem)
      [] nodes[key].kind = "Reduce" -> ResolveReduce(key, enc, mem)
      [] nodes[key].kind = "Tensor" -> ResolveTensor(key, enc, mem)
      [] nodes[key].kind = "MapLayout" -> ResolveSlice(key, enc, mem)
      [] nodes[key].kind = "Resize" -> ResolveResize(key, enc, mem)
      [] nodes[key].kind = "SliceAssign" -> ResolveSliceAssign(key, enc, mem)

(***************************************************************************)
(* Graph construction.  The tensors handed to the store are the ones       *)
(* Tensor::new builds: a buffer of their own, row-major, offset 0.         *)
(***************************************************************************)
LeafShapes == {<<2>>, <<2, 2>>, <<2, 1, 2>>}

MatrixShapes == {<<2, 2>>}

\* the data of the tests: 1, 2, 3, ... in row-major order
LeafData(shape) == [i \in 1..Product(shape) |-> i]

\* proper sub-ranges of one axis, every other axis kept whole
SliceChoices(shape) ==
    {slices \in [1..Len(shape) -> (0..2) \X (0..2)] :
        /\ \A i \in 1..Len(shape) :
            /\ slices[i][1] < slices[i][2]
            /\ slices[i][2] <= shape[i]
        /\ Cardinality({i \in 1..Len(shape) : slices[i] # <<0, shape[i]>>}) = 1}

graphVars == <<encoder, batch, before, submitted, resolves, kernel, runs, stepVars>>

InsertTensor(shape) ==
    /\ Len(shape) <= MaxRank
    /\ nodes' = Append(nodes, TensorRecord(NewTensor(Len(buffers) + 1, shape)))
    /\ buffers' = Append(buffers, LeafData(shape))
    /\ UNCHANGED <<counter, graphVars>>

\* the operator sugar: self.element_wise(ElementWiseOperation { value, function })
InsertElementWise(value, operation) ==
    /\ nodes' = Append(nodes,
            ElementWiseOperation(value, ElementWiseFunction(operation, counter)))
    /\ counter' = counter + 1
    /\ UNCHANGED <<buffers, graphVars>>

InsertPairWise(first, second, function) ==
    /\ ShapeOf(first) = ShapeOf(second)
    /\ nodes' = Append(nodes, PairWiseOperation(first, second, function))
    /\ UNCHANGED <<counter, buffers, graphVars>>

InsertMatMul(first, second) ==
    /\ Len(ShapeOf(first)) = 2
    /\ Len(ShapeOf(second)) = 2
    /\ ShapeOf(first)[2] = ShapeOf(second)[1]
    /\ nodes' = Append(nodes, MatMulOperation(first, second))
    /\ UNCHANGED <<counter, buffers, graphVars>>

InsertReduce(value, axis) ==
    /\ Len(ShapeOf(value)) >= 2
    /\ axis < Len(ShapeOf(value))
    /\ nodes' = Append(nodes, ReduceOperation(value, axis, "sum"))
    /\ UNCHANGED <<counter, buffers, graphVars>>

InsertMapLayout(input, slices) ==
    /\ slices \in SliceChoices(ShapeOf(input))
    /\ nodes' = Append(nodes, MapLayoutOperation(input, slices))
    /\ UNCHANGED <<counter, buffers, graphVars>>

InsertResize(input) ==
    /\ nodes' = Append(nodes, ResizeOperation(input,
            [ShapeOf(input) EXCEPT ![1] = ShapeOf(input)[1] + 1]))
    /\ UNCHANGED <<counter, buffers, graphVars>>

\* the region written starts at the origin and has the shape of value
InsertSliceAssign(input, value) ==
    /\ Len(ShapeOf(input)) = Len(ShapeOf(value))
    /\ \A i \in 1..Len(ShapeOf(input)) : ShapeOf(value)[i] <= ShapeOf(input)[i]
    /\ nodes' = Append(nodes, SliceAssignOperation(input, value,
            [i \in 1..Len(ShapeOf(value)) |-> <<0, ShapeOf(value)[i]>>]))
    /\ UNCHANGED <<counter, buffers, graphVars>>

(***************************************************************************)
(* Resolve and submit.                                                     *)
(***************************************************************************)
\* ComputeGraphInner::resolve(key, encoder); a submitted encoder is replaced
\* by a new one
ResolveKey(key) ==
    LET enc == IF submitted THEN <<>> ELSE encoder
        calls == IF submitted THEN <<>> ELSE batch
        result == Resolve(key, enc, buffers)
    IN  /\ encoder' = result.encoder
        /\ buffers' = result.buffers
        /\ batch' = Append(calls, [key |-> key, tensor |-> result.tensor,
                                   start |-> Len(enc), base |-> Len(buffers)])
        /\ submitted' = FALSE
        /\ resolves' = resolves + 1
        /\ UNCHANGED <<nodes, counter, before, kernel, runs, stepVars>>

\* the caller submits the encoder: the device executes its passes
Submit ==
    /\ batch # <<>>
    /\ ~submitted
    /\ before' = buffers
    /\ buffers' = Execute(encoder, buffers)
    /\ submitted' = TRUE
    /\ UNCHANGED <<nodes, counter, encoder, batch, resolves, kernel, runs, stepVars>>

Init ==
    /\ nodes = <<>>
    /\ counter = 0
    /\ buffers = <<>>
    /\ encoder = <<>>
    /\ batch = <<>>
    /\ before = <<>>
    /\ submitted = FALSE
    /\ resolves = 0
    /\ kernel = UntypedElementWiseKernel(<<>>, "i32")
    /\ runs = <<>>
    /\ pc = 0
    /\ trace = <<>>
    /\ threads = <<>>

\* the graph is built before it is resolved: the store is mutated during
\* construction and read-only during resolve
Building(limit) == resolves = 0 /\ Len(nodes) < limit

Resolving(limit) == resolves < limit

(***************************************************************************)
(* Spec: graphs of every kind of node over 2 x 2 tensors.                  *)
(***************************************************************************)
Next ==
    \/ \E shape \in MatrixShapes : Building(MaxNodes) /\ InsertTensor(shape)
    \/ \E value \in Keys, operation \in Operations :
            Building(MaxNodes) /\ InsertElementWise(value, operation)
    \/ \E first \in Keys, second \in Keys, function \in BinaryFunctions :
            Building(MaxNodes) /\ InsertPairWise(first, second, function)
    \/ \E first \in Keys, second \in Keys :
            Building(MaxNodes) /\ InsertMatMul(first, second)
    \/ \E value \in Keys, axis \in 0..(MaxRank - 1) :
            Building(MaxNodes) /\ InsertReduce(value, axis)
    \/ \E input \in Keys : \E slices \in SliceChoices(ShapeOf(input)) :
            Building(MaxNodes) /\ InsertMapLayout(input, slices)
    \/ \E input \in Keys : Building(MaxNodes) /\ InsertResize(input)
    \/ \E input \in Keys, value \in Keys :
            Building(MaxNodes) /\ InsertSliceAssign(input, value)
    \/ \E key \in Keys : Resolving(MaxResolves) /\ ResolveKey(key)
    \/ Submit

Spec == Init /\ [][Next]_vars

(***************************************************************************)
(* SpecRepeat: several resolves of one small graph.                        *)
(***************************************************************************)
NextRepeat ==
    \/ \E shape \in MatrixShapes : Building(MaxRepeatNodes) /\ InsertTensor(shape)
    \/ \E value \in Keys, operation \in Operations :
            Building(MaxRepeatNodes) /\ InsertElementWise(value, operation)
    \/ \E first \in Keys, second \in Keys, function \in BinaryFunctions :
            Building(MaxRepeatNodes) /\ InsertPairWise(first, second, function)
    \/ \E first \in Keys, second \in Keys :
            Building(MaxRepeatNodes) /\ InsertMatMul(first, second)
    \/ \E value \in Keys, axis \in 0..(MaxRank - 1) :
            Building(MaxRepeatNodes) /\ InsertReduce(value, axis)
    \/ \E input \in Keys : \E slices \in SliceChoices(ShapeOf(input)) :
            Building(MaxRepeatNodes) /\ InsertMapLayout(input, slices)
    \/ \E input \in Keys : Building(MaxRepeatNodes) /\ InsertResize(input)
    \/ \E input \in Keys, value \in Keys :
            Building(MaxRepeatNodes) /\ InsertSliceAssign(input, value)
    \/ \E key \in Keys : Resolving(MaxRepeats) /\ ResolveKey(key)
    \/ Submit

SpecRepeat == Init /\ [][NextRepeat]_vars

(***************************************************************************)
(* SpecOrder: graphs of binary nodes, resolved at their root.              *)
(***************************************************************************)
NextOrder ==
    \/ \E shape \in MatrixShapes : Building(MaxOrderNodes) /\ InsertTensor(shape)
    \/ \E first \in Keys, second \in Keys, function \in BinaryFunctions :
            Building(MaxOrderNodes) /\ InsertPairWise(first, second, function)
    \/ \E first \in Keys, second \in Keys :
            Building(MaxOrderNodes) /\ InsertMatMul(first, second)
    \/ \E input \in Keys, value \in Keys :
            Building(MaxOrderNodes) /\ InsertSliceAssign(input, value)
    \/ nodes # <<>> /\ Resolving(MaxResolves) /\ ResolveKey(Len(nodes))
    \/ Submit

SpecOrder == Init /\ [][NextOrder]_vars

(***************************************************************************)
(* SpecRank: graphs that keep the rank of their leaves, the caller trying  *)
(* leaves of rank 1 to 4.                                                  *)
(***************************************************************************)
RankShapes == LeafShapes \cup {<<2, 1, 1, 2>>}

NextRank ==
    \/ \E shape \in RankShapes : Building(MaxRankNodes) /\ InsertTensor(shape)
    \/ \E value \in Keys :
            Building(MaxRankNodes) /\ InsertElementWise(value, "data = data + 1;")
    \/ \E input \in Keys : \E slices \in SliceChoices(ShapeOf(input)) :
            Building(MaxRankNodes) /\ InsertMapLayout(input, slices)
    \/ \E input \in Keys : Building(MaxRankNodes) /\ InsertResize(input)
    \/ \E input \in Keys, value \in Keys :
            Building(MaxRankNodes) /\ InsertSliceAssign(input, value)
    \/ nodes # <<>> /\ Resolving(MaxResolves) /\ ResolveKey(Len(nodes))
    \/ Submit

SpecRank == Init /\ [][NextRank]_vars

(***************************************************************************)
(* SpecProducer: graphs in which every new node reads the newest node,     *)
(* resolved at their root.                                                 *)
(***************************************************************************)
\* the operand pairs of a new binary node: one of the two is the newest key
NewestPairs == {pair \in Keys \X Keys : Len(nodes) \in {pair[1], pair[2]}}

NextProducer ==
    \/ \E shape \in MatrixShapes : Building(MaxProducerNodes) /\ InsertTensor(shape)
    \/ nodes # <<>> /\ Building(MaxProducerNodes)
            /\ InsertElementWise(Len(nodes), "data = data + 1;")
    \/ \E pair \in NewestPairs, function \in BinaryFunctions :
            Building(MaxProducerNodes) /\ InsertPairWise(pair[1], pair[2], function)
    \/ \E pair \in NewestPairs :
            Building(MaxProducerNodes) /\ InsertMatMul(pair[1], pair[2])
    \/ nodes # <<>> /\ \E slices \in SliceChoices(ShapeOf(Len(nodes))) :
            Building(MaxProducerNodes) /\ InsertMapLayout(Len(nodes), slices)
    \/ nodes # <<>> /\ Building(MaxProducerNodes) /\ InsertResize(Len(nodes))
    \/ nodes # <<>> /\ Building(MaxProducerNodes) /\ InsertReduce(Len(nodes), 0)
    \/ \E pair \in NewestPairs :
            Building(MaxProducerNodes) /\ InsertSliceAssign(pair[1], pair[2])
    \/ nodes # <<>> /\ Resolving(MaxResolves) /\ ResolveKey(Len(nodes))
    \/ Submit

SpecProducer == Init /\ [][NextProducer]_vars

(***************************************************************************)
(* SpecChain: elementwise nodes over leaf tensors of rank 1, 2 and 3.      *)
(***************************************************************************)
NextChain ==
    \/ \E shape \in LeafShapes : Building(MaxChainNodes) /\ InsertTensor(shape)
    \/ \E value \in Keys, operation \in Operations :
            Building(MaxChainNodes) /\ InsertElementWise(value, operation)
    \/ \E key \in Keys : Resolving(MaxResolves) /\ ResolveKey(key)
    \/ Submit

SpecChain == Init /\ [][NextChain]_vars

(***************************************************************************)
(* SpecFusion: the nodes the fusion rules are about.                       *)
(***************************************************************************)
NextFusion ==
    \/ \E shape \in MatrixShapes : Building(MaxFusionNodes) /\ InsertTensor(shape)
    \/ \E value \in Keys :
            Building(MaxFusionNodes) /\ InsertElementWise(value, "data = data + 1;")
    \/ \E first \in Keys, second \in Keys, function \in BinaryFunctions :
            Building(MaxFusionNodes) /\ InsertPairWise(first, second, function)
    \/ \E value \in Keys : Building(MaxFusionNodes) /\ InsertReduce(value, 0)
    \/ \E key \in Keys : Resolving(MaxResolves) /\ ResolveKey(key)
    \/ Submit

SpecFusion == Init /\ [][NextFusion]_vars

(***************************************************************************)
(* SpecKernel: one kernel instance run on several views.                   *)
(***************************************************************************)
KernelBuffers == <<LeafData(<<3, 2>>), LeafData(<<4>>), LeafData(<<2, 1, 2>>)>>

\* whole tensors, and views of them that tensor.slice builds
KernelViews ==
    {NewTensor(1, <<3, 2>>),
     MapLayoutRun(<<<<0, 3>>, <<0, 1>>>>, NewTensor(1, <<3, 2>>)),
     MapLayoutRun(<<<<1, 3>>, <<0, 2>>>>, NewTensor(1, <<3, 2>>)),
     NewTensor(2, <<4>>),
     MapLayoutRun(<<<<1, 3>>>>, NewTensor(2, <<4>>)),
     NewTensor(3, <<2, 1, 2>>),
     MapLayoutRun(<<<<0, 2>>, <<0, 1>>, <<0, 1>>>>, NewTensor(3, <<2, 1, 2>>))}

\* function lists as the resolver collects them: the newest function first
KernelFunctions ==
    {<<>>} \cup {<<ElementWiseFunction(o, 0)>> : o \in Operations}
           \cup {<<ElementWiseFunction(o2, 1), ElementWiseFunction(o1, 0)>> :
                    o1 \in Operations, o2 \in Operations}

InitKernel ==
    /\ nodes = <<>>
    /\ counter = 2
    /\ buffers = KernelBuffers
    /\ encoder = <<>>
    /\ batch = <<>>
    /\ before = <<>>
    /\ submitted = FALSE
    /\ resolves = 0
    /\ kernel \in {UntypedElementWiseKernel(functions, "i32") :
                      functions \in KernelFunctions}
    /\ runs = <<>>
    /\ pc = 0
    /\ trace = <<>>
    /\ threads = <<>>

\* kernel.run_with_query(&tensor, query, &mut encoder)
RunKernel(tensor, query) ==
    LET run == RunWithQuery(kernel, tensor, query, encoder)
    IN  /\ kernel' = run.kernel
        /\ encoder' = run.encoder
        /\ runs' = Append(runs, [tensor |-> tensor, query |-> query,
                                 kernel |-> kernel, start |-> Len(encoder)])
        /\ UNCHANGED <<nodes, counter, buffers, batch, before, submitted, resolves,
                       stepVars>>

NextKernel ==
    \E tensor \in KernelViews, query \in BOOLEAN :
        Len(runs) < MaxRuns /\ RunKernel(tensor, query)

SpecKernel == InitKernel /\ [][NextKernel]_vars

(***************************************************************************)
(* SpecDense: one kernel instance run on contiguous views of one buffer,   *)
(* of sizes around the span of an invocation and of a workgroup.           *)
(***************************************************************************)
\* the elements one workgroup of the dense path handles
DenseSpan == TILE_SIZE * MaxBlocksize

DenseSizes ==
    {TILE_SIZE + d : d \in {1 - TILE_SIZE, -1, 0, 1}}
        \cup {g * DenseSpan + d : g \in 1..MaxDenseGroups, d \in {-1, 0, 1}}

DenseBufferSize == MaxDenseGroups * DenseSpan + TILE_SIZE

\* tensor.slice(0..n) of the whole buffer, and whole tensors of rank 2 and 3
DenseViews ==
    {MapLayoutRun(<<<<0, n>>>>, NewTensor(1, <<DenseBufferSize>>)) : n \in DenseSizes}
        \cup {NewTensor(2, <<3, 2>>), NewTensor(3, <<2, 1, 2>>)}

\* the empty list, one function, and a chain of two as the resolver lists it
DenseFunctions ==
    {<<>>, <<ElementWiseFunction("data = data + 1;", 0)>>,
     <<ElementWiseFunction("data = data * 2;", 1),
       ElementWiseFunction("data = data + 1;", 0)>>}

InitDense ==
    /\ nodes = <<>>
    /\ counter = 2
    /\ buffers = <<LeafData(<<DenseBufferSize>>), LeafData(<<3, 2>>),
                   LeafData(<<2, 1, 2>>)>>
    /\ encoder = <<>>
    /\ batch = <<>>
    /\ before = <<>>
    /\ submitted = FALSE
    /\ resolves = 0
    /\ kernel \in {UntypedElementWiseKernel(functions, "i32") :
                      functions \in DenseFunctions}
    /\ runs = <<>>
    /\ pc = 0
    /\ trace = <<>>
    /\ threads = <<>>

NextDense ==
    \E tensor \in DenseViews : Len(runs) < MaxDenseRuns /\ RunKernel(tensor, FALSE)

SpecDense == InitDense /\ [][NextDense]_vars

(***************************************************************************)
(* SpecStrided: one kernel instance run on non-contiguous views, some with *)
(* one axis longer than a workgroup spans.                                 *)
(***************************************************************************)
\* the extent of one axis that a workgroup of the strided path handles
StridedSpan(rank) == TILE_SIZE * FloorRoot(rank)

\* an extent that needs one workgroup more than MaxStridedGroups
LongExtent(rank) == MaxStridedGroups * StridedSpan(rank) + 1

StridedBuffers ==
    <<LeafData(<<3, 2>>), LeafData(<<LongExtent(2), 2>>),
      LeafData(<<1, LongExtent(2) + 1>>), LeafData(<<2, 1, 2>>),
      LeafData(<<1, 1, LongExtent(3) + 1>>)>>

\* views that tensor.slice builds, the first the one of test_add_const_sliced
StridedViews ==
    {MapLayoutRun(<<<<0, 3>>, <<0, 1>>>>, NewTensor(1, <<3, 2>>)),
     MapLayoutRun(<<<<1, 3>>, <<1, 2>>>>, NewTensor(1, <<3, 2>>)),
     MapLayoutRun(<<<<0, LongExtent(2)>>, <<0, 1>>>>, NewTensor(2, <<LongExtent(2), 2>>)),
     MapLayoutRun(<<<<0, 1>>, <<0, LongExtent(2)>>>>,
                  NewTensor(3, <<1, LongExtent(2) + 1>>)),
     MapLayoutRun(<<<<0, 2>>, <<0, 1>>, <<0, 1>>>>, NewTensor(4, <<2, 1, 2>>)),
     MapLayoutRun(<<<<0, 1>>, <<0, 1>>, <<0, LongExtent(3)>>>>,
                  NewTensor(5, <<1, 1, LongExtent(3) + 1>>))}

InitStrided ==
    /\ nodes = <<>>
    /\ counter = 2
    /\ buffers = StridedBuffers
    /\ encoder = <<>>
    /\ batch = <<>>
    /\ before = <<>>
    /\ submitted = FALSE
    /\ resolves = 0
    /\ kernel \in {UntypedElementWiseKernel(functions, "i32") :
                      functions \in DenseFunctions}
    /\ runs = <<>>
    /\ pc = 0
    /\ trace = <<>>
    /\ threads = <<>>

NextStrided ==
    \E tensor \in StridedViews : Len(runs) < MaxStridedRuns /\ RunKernel(tensor, FALSE)

SpecStrided == InitStrided /\ [][NextStrided]_vars

(***************************************************************************)
(* SpecSteps: a caller that resolves a small graph and also runs one       *)
(* kernel instance directly, with or without a performance query, on the   *)
(* same encoder; the direct run is taken one statement at a time.          *)
(***************************************************************************)
\* the workgroups dispatched before the bind group is set
StatementsDispatchEarly ==
    <<"get_or_init", "create_bind_group_layout", "create_pipeline_layout",
      "create_compute_pipeline", "create_buffer_init", "create_bind_group",
      "begin_compute_pass", "set_pipeline", "dispatch_workgroups",
      "set_bind_group", "end_pass", "resolve_query">>

\* the calls run_with_query makes, in program order; the compute pass ends
\* where its scope closes, and the last call is made only with a query
Statements ==
    <<"get_or_init", "create_bind_group_layout", "create_pipeline_layout",
      "create_compute_pipeline", "create_buffer_init", "create_bind_group",
      "begin_compute_pass", "set_pipeline", "set_bind_group",
      "dispatch_workgroups", "end_pass", "resolve_query">>

\* the call in progress
CurrentRun == runs[Len(runs)]

\* one entry of the trace; timestamp_writes is query.map(..) of the pass
Called(name) ==
    [run |-> Len(runs), call |-> name,
     timestamps |-> name = "begin_compute_pass" /\ CurrentRun.query]

\* a whole tensor and a view of it that tensor.slice builds
StepViews ==
    {NewTensor(1, <<3, 2>>),
     MapLayoutRun(<<<<0, 3>>, <<0, 1>>>>, NewTensor(1, <<3, 2>>))}

InitSteps ==
    /\ nodes = <<>>
    /\ counter = 1
    /\ buffers = <<LeafData(<<3, 2>>)>>
    /\ encoder = <<>>
    /\ batch = <<>>
    /\ before = <<>>
    /\ submitted = FALSE
    /\ resolves = 0
    /\ kernel = UntypedElementWiseKernel(
                    <<ElementWiseFunction("data = data + 1;", 0)>>, "i32")
    /\ runs = <<>>
    /\ pc = 0
    /\ trace = <<>>
    /\ threads = <<>>

\* the caller enters kernel.run_with_query(&tensor, query, &mut encoder)
CallRunWithQuery(tensor, query) ==
    /\ pc = 0
    /\ runs' = Append(runs, [tensor |-> tensor, query |-> query,
                             kernel |-> kernel, start |-> Len(encoder)])
    /\ pc' = 1
    /\ UNCHANGED <<nodes, counter, buffers, encoder, batch, before, submitted,
                   resolves, kernel, trace, threads>>

\* let module = if contiguous { dense_kernel.get_or_init(..) } else { .. }
GetModule ==
    LET t == CurrentRun.tensor
        source == TiledMap(kernel, MaxBlocksizeFor(t), TRUE, IsContiguous(t), t)
    IN  /\ pc > 0
        /\ Statements[pc] = "get_or_init"
        /\ kernel' = IF IsContiguous(t)
                     THEN [kernel EXCEPT !.dense_kernel = GetOrInit(@, source)]
                     ELSE [kernel EXCEPT !.sparse_kernel = GetOrInit(@, source)]
        /\ trace' = Append(trace, Called("get_or_init"))
        /\ pc' = pc + 1
        /\ UNCHANGED <<nodes, counter, buffers, encoder, batch, before, submitted,
                       resolves, runs, threads>>

\* a call that creates a device object or fills the open compute pass
Statement ==
    /\ pc > 0
    /\ Statements[pc] \notin {"get_or_init", "end_pass", "resolve_query"}
    /\ trace' = Append(trace, Called(Statements[pc]))
    /\ pc' = pc + 1
    /\ UNCHANGED <<nodes, counter, buffers, encoder, batch, before, submitted,
                   resolves, kernel, runs, threads>>

\* the scope of cpass closes: the pass is on the encoder; then
\* if let Some(query) = query { .. }
EndPass ==
    LET t == CurrentRun.tensor
        module == IF IsContiguous(t) THEN kernel.dense_kernel[1]
                  ELSE kernel.sparse_kernel[1]
        pass == [BlankPass EXCEPT !.kind = "ElementWise", !.module = module,
                     !.uniform = LayoutData(t), !.workgroups = Workgroups(t),
                     !.inputs = <<t>>, !.output = t, !.timestamps = CurrentRun.query]
    IN  /\ pc > 0
        /\ Statements[pc] = "end_pass"
        /\ encoder' = Append(encoder, pass)
        /\ trace' = Append(trace, Called("end_pass"))
        /\ pc' = IF CurrentRun.query THEN pc + 1 ELSE 0
        /\ UNCHANGED <<nodes, counter, buffers, batch, before, submitted,
                       resolves, kernel, runs, threads>>

\* query.resolve(command_encoder)
ResolveQuery ==
    /\ pc > 0
    /\ Statements[pc] = "resolve_query"
    /\ encoder' = Append(encoder, QueryResolve)
    /\ trace' = Append(trace, Called("resolve_query"))
    /\ pc' = 0
    /\ UNCHANGED <<nodes, counter, buffers, batch, before, submitted,
                   resolves, kernel, runs, threads>>

NextSteps ==
    \/ \E shape \in MatrixShapes :
            pc = 0 /\ Building(MaxStepNodes) /\ InsertTensor(shape)
    \/ nodes # <<>> /\ pc = 0 /\ Building(MaxStepNodes)
            /\ InsertElementWise(Len(nodes), "data = data + 1;")
    \/ nodes # <<>> /\ pc = 0 /\ Building(MaxStepNodes)
            /\ InsertPairWise(Len(nodes), Len(nodes), "add")
    \/ nodes # <<>> /\ pc = 0 /\ Resolving(MaxResolves) /\ ResolveKey(Len(nodes))
    \/ \E tensor \in StepViews, query \in BOOLEAN :
            Len(runs) < MaxStepRuns /\ CallRunWithQuery(tensor, query)
    \/ GetModule
    \/ Statement
    \/ EndPass
    \/ ResolveQuery

SpecSteps == InitSteps /\ [][NextSteps]_vars

(***************************************************************************)
(* SpecEmit: modify_data and add_functions applied, in either style, to    *)
(* the function list of one kernel.                                        *)
(***************************************************************************)
\* function lists as the resolver collects them, the newest function first:
\* the function of the node nearest the producer drew the smallest id
EmitLists(n) ==
    {[i \in 1..n |-> ElementWiseFunction(operations[i], n - i)] :
        operations \in [1..n -> Operations]}

EmitFunctions == UNION {EmitLists(n) : n \in 0..MaxEmitLen}

InitEmit ==
    /\ nodes = <<>>
    /\ counter = MaxEmitLen
    /\ buffers = <<>>
    /\ encoder = <<>>
    /\ batch = <<>>
    /\ before = <<>>
    /\ submitted = FALSE
    /\ resolves = 0
    /\ kernel \in {UntypedElementWiseKernel(functions, "i32") :
                      functions \in EmitFunctions}
    /\ runs = <<>>
    /\ pc = 0
    /\ trace = <<>>
    /\ threads = <<>>

\* add_functions(inline, &mut kernel) and modify_data(inline, &mut kernel):
\* what the two push onto the kernel string
Emit(inline) ==
    /\ trace' = Append(trace,
            [inline |-> inline,
             functions |-> AddFunctions(kernel.functions, inline),
             body |-> IF inline THEN ModifyData(kernel.functions) ELSE <<>>,
             call |-> IF inline THEN <<>> ELSE ModifyDataCalls(kernel.functions)])
    /\ UNCHANGED <<nodes, counter, buffers, encoder, batch, before, submitted,
                   resolves, kernel, runs, pc, threads>>

NextEmit == \E inline \in BOOLEAN : Len(trace) < MaxEmits /\ Emit(inline)

SpecEmit == InitEmit /\ [][NextEmit]_vars

(***************************************************************************)
(* SpecThreads: several threads construct ElementWiseFunctions; the only   *)
(* state they share is the static COUNTER.                                 *)
(***************************************************************************)
Threads == 1..MaxThreads

\* a fetch-and-add that leaves the counter as it found it
FetchAddLost(value) == [previous |-> value, counter |-> value]

\* COUNTER.fetch_add(1, SeqCst) on an AtomicU64: the value before, and the
\* counter after (it wraps at 2^64, which this many constructions never reach)
FetchAdd(value) == [previous |-> value, counter |-> value + 1]

IdleThread == [pc |-> "idle", operation |-> "none", name_id |-> 0]

InitThreads ==
    /\ nodes = <<>>
    /\ counter = 0
    /\ buffers = <<>>
    /\ encoder = <<>>
    /\ batch = <<>>
    /\ before = <<>>
    /\ submitted = FALSE
    /\ resolves = 0
    /\ kernel = UntypedElementWiseKernel(<<>>, "i32")
    /\ runs = <<>>
    /\ pc = 0
    /\ trace = <<>>
    /\ threads = [t \in Threads |-> IdleThread]

threadFrame == <<nodes, buffers, encoder, batch, before, submitted, resolves,
                 kernel, runs, pc>>

\* the ElementWiseFunction::new calls entered so far
Constructions ==
    Len(trace) + Cardinality({t \in Threads : threads[t].pc # "idle"})

\* a thread enters ElementWiseFunction::new(operation)
New(t, operation) ==
    /\ threads[t].pc = "idle"
    /\ Constructions < MaxConstructions
    /\ threads' = [threads EXCEPT ![t] = [pc |-> "fetch_add", operation |-> operation,
                                          name_id |-> 0]]
    /\ UNCHANGED <<counter, trace, threadFrame>>

\* let name_id = COUNTER.fetch_add(1, Ordering::SeqCst): one atomic step
FetchAddStep(t) ==
    /\ threads[t].pc = "fetch_add"
    /\ threads' = [threads EXCEPT ![t].pc = "build",
                                  ![t].name_id = FetchAdd(counter).previous]
    /\ counter' = FetchAdd(counter).counter
    /\ UNCHANGED <<trace, threadFrame>>

\* Self { name: None, name_id, operation }.with_name(..) is handed back
Build(t) ==
    /\ threads[t].pc = "build"
    /\ trace' = Append(trace,
            [thread |-> t,
             function |-> ElementWiseFunction(threads[t].operation, threads[t].name_id)])
    /\ threads' = [threads EXCEPT ![t] = IdleThread]
    /\ UNCHANGED <<counter, threadFrame>>

NextThreads ==
    \/ \E t \in Threads, operation \in Operations : New(t, operation)
    \/ \E t \in Threads : FetchAddStep(t)
    \/ \E t \in Threads : Build(t)

SpecThreads == InitThreads /\ [][NextThreads]_vars

(***************************************************************************)
(* SpecTree: graphs in which every node is read by at most one node,       *)
(* resolved at their newest node.                                          *)
(***************************************************************************)
TreeLeafShapes == {<<2, 2>>, <<2>>}

\* tensor.slice of the first index of axis 0, every other axis kept whole
FirstRow(shape) ==
    [i \in 1..Len(shape) |-> IF i = 1 THEN <<0, 1>> ELSE <<0, shape[i]>>]

\* the keys that no node reads yet
Roots ==
    {k \in Keys :
        \A c \in Keys : \A i \in 1..Len(Inputs(nodes[c])) : Inputs(nodes[c])[i] # k}

NextTree ==
    \/ \E shape \in TreeLeafShapes : Building(MaxTreeNodes) /\ InsertTensor(shape)
    \/ \E value \in Roots :
            Building(MaxTreeNodes) /\ InsertElementWise(value, "data = data + 1;")
    \/ \E first \in Roots, second \in Roots, function \in BinaryFunctions :
            first # second /\ Building(MaxTreeNodes)
                /\ InsertPairWise(first, second, function)
    \/ \E first \in Roots, second \in Roots :
            first # second /\ Building(MaxTreeNodes) /\ InsertMatMul(first, second)
    \/ \E value \in Roots : Building(MaxTreeNodes) /\ InsertReduce(value, 0)
    \/ \E input \in Roots :
            Building(MaxTreeNodes) /\ InsertMapLayout(input, FirstRow(ShapeOf(input)))
    \/ \E input \in Roots : Building(MaxTreeNodes) /\ InsertResize(input)
    \/ \E input \in Roots, value \in Roots :
            input # value /\ Building(MaxTreeNodes) /\ InsertSliceAssign(input, value)
    \/ nodes # <<>> /\ Resolving(MaxResolves) /\ ResolveKey(Len(nodes))

SpecTree == Init /\ [][NextTree]_vars

(***************************************************************************)
(* What the claims speak about.                                            *)
(***************************************************************************)
\* the passes that the i-th resolve call of the batch recorded
CallEnd(i) == IF i < Len(batch) THEN batch[i + 1].start ELSE Len(encoder)

CallPasses(i) == SubSeq(encoder, batch[i].start + 1, CallEnd(i))

\* device memory as the i-th resolve call of a submitted batch found it
MemoryAt(i) == SubSeq(before, 1, batch[i].base)

\* the first key below key that is no ElementWise node
RECURSIVE Producer(_)
Producer(key) ==
    IF nodes[key].kind = "ElementWise" THEN Producer(nodes[key].value) ELSE key

\* the functions of the ElementWise nodes from key down to its producer,
\* nearest to key first
RECURSIVE ChainFunctions(_)
ChainFunctions(key) ==
    IF nodes[key].kind = "ElementWise"
    THEN <<nodes[key].function>> \o ChainFunctions(nodes[key].value)
    ELSE <<>>

ChainOperations(key) ==
    [i \in 1..Len(ChainFunctions(key)) |-> ChainFunctions(key)[i].operation]

\* f_n(... f_1(x) ...): the function of the node nearest the producer first
RECURSIVE ChainValue(_, _)
ChainValue(key, x) ==
    IF nodes[key].kind = "ElementWise"
    THEN ApplyOperation(nodes[key].function.operation, ChainValue(nodes[key].value, x))
    ELSE x

IsChainOverLeaf(key) ==
    nodes[key].kind = "ElementWise" /\ nodes[Producer(key)].kind = "Tensor"

PassKinds(passes) == [i \in 1..Len(passes) |-> passes[i].kind]

(***************************************************************************)
(* C1: a chain of ElementWise nodes over a leaf tensor T of rank 1, 2 or 3 *)
(* resolves to a tensor of T's shape whose elements are f_n(...f_1(x)...)  *)
(* of the elements x of T, f_1 being the function nearest the leaf.        *)
(* Stated of a submitted encoder that holds one resolve call; x is the     *)
(* element of T when the call was made.                                    *)
(***************************************************************************)
C1_ChainComposes ==
    (submitted /\ Len(batch) = 1 /\ IsChainOverLeaf(batch[1].key)) =>
        LET leaf == nodes[Producer(batch[1].key)].tensor
            input == Read(leaf, before)
        IN  /\ batch[1].tensor.shape = leaf.shape
            /\ Rank(leaf) \in 1..MaxRank
            /\ Read(batch[1].tensor, buffers) =
                    [j \in 1..Len(input) |-> ChainValue(batch[1].key, input[j])]

\* (x + 1) * 2 over the rank-3 leaf 1, 2, 3, 4 has been resolved and run
C1_Witness ==
    /\ submitted
    /\ Len(batch) = 1
    /\ IsChainOverLeaf(batch[1].key)
    /\ Rank(batch[1].tensor) = 3
    /\ PassKinds(encoder) = <<"ElementWise">>
    /\ ChainOperations(batch[1].key) = <<"data = data * 2;", "data = data + 1;">>
    /\ Read(batch[1].tensor, buffers) = <<4, 6, 8, 10>>

(***************************************************************************)
(* The reference of fusion invariance: the same graph resolved with fusion *)
(* disabled, every ElementWise node run as a standalone kernel of its own  *)
(* and every PairWise and Reduce kernel run without pre and post stages.   *)
(***************************************************************************)
RECURSIVE ResolveUnfused(_, _, _)
ResolveUnfused(key, enc, mem) ==
    LET operation == nodes[key] IN
    CASE operation.kind = "ElementWise" ->
            LET input == ResolveUnfused(operation.value, enc, mem)
                k == UntypedElementWiseKernel(<<operation.function>>, input.tensor.dtype)
                run == RunWithQuery(k, input.tensor, FALSE, input.encoder)
            IN  [tensor |-> input.tensor, encoder |-> run.encoder,
                 buffers |-> input.buffers]
      [] operation.kind = "PairWise" ->
            LET first == ResolveUnfused(operation.first, enc, mem)
                second == ResolveUnfused(operation.second, first.encoder, first.buffers)
            IN  PairWiseRun(UntypedPairWiseKernel(operation.function, first.tensor.dtype),
                            first.tensor, second.tensor, second.encoder, second.buffers)
      [] operation.kind = "MatMul" ->
            LET first == ResolveUnfused(operation.first, enc, mem)
                second == ResolveUnfused(operation.second, first.encoder, first.buffers)
            IN  MatMulRun(first.tensor, second.tensor, second.encoder, second.buffers)
      [] operation.kind = "Reduce" ->
            LET input == ResolveUnfused(operation.value, enc, mem)
            IN  ReduceRun(UntypedReduceKernel(operation.function, input.tensor.dtype),
                          input.tensor, operation.axis, input.encoder, input.buffers)
      [] operation.kind = "Tensor" -> ResolveTensor(key, enc, mem)
      [] operation.kind = "MapLayout" ->
            LET input == ResolveUnfused(operation.input, enc, mem)
            IN  [input EXCEPT !.tensor = MapLayoutRun(operation.op, input.tensor)]
      [] operation.kind = "Resize" ->
            LET input == ResolveUnfused(operation.input, enc, mem)
            IN  ResizeRun(operation.new_shape, input.tensor, input.encoder, input.buffers)
      [] operation.kind = "SliceAssign" ->
            LET input == ResolveUnfused(operation.input, enc, mem)
                value == ResolveUnfused(operation.value, input.encoder, input.buffers)
            IN  SliceAssignRun(operation.op, input.tensor, value.tensor,
                               value.encoder, value.buffers)

\* what the caller reads back from the reference run started on memory mem
UnfusedOutput(key, mem) ==
    LET reference == ResolveUnfused(key, <<>>, mem)
    IN  Read(reference.tensor, Execute(reference.encoder, reference.buffers))

\* the keys from which no key is reached along two different paths
RECURSIVE Reached(_)
Reached(key) ==
    LET inputs == Inputs(nodes[key])
    IN  {key} \cup UNION {Reached(inputs[i]) : i \in 1..Len(inputs)}

RECURSIVE PathCount(_, _)
PathCount(from, to) ==
    IF from = to THEN 1
    ELSE LET inputs == Inputs(nodes[from])
         IN  Sum([i \in 1..Len(inputs) |-> PathCount(inputs[i], to)])

TreeShaped(key) == \A below \in Reached(key) : PathCount(key, below) = 1

(***************************************************************************)
(* C2: fusion invariance.  The tensor a resolve returns equals, element    *)
(* for element, the tensor the same graph yields with fusion disabled,     *)
(* also when one key is the input of more than one node.                   *)
(***************************************************************************)
C2_FusionInvariance ==
    (submitted /\ Len(batch) = 1) =>
        Read(batch[1].tensor, buffers) = UnfusedOutput(batch[1].key, MemoryAt(1))

\* the same, of the graphs in which no key is reached along two paths
C2_FusionInvarianceOfTrees ==
    (submitted /\ Len(batch) = 1 /\ TreeShaped(batch[1].key)) =>
        Read(batch[1].tensor, buffers) = UnfusedOutput(batch[1].key, MemoryAt(1))

(***************************************************************************)
(* C3: resolvers never mutate their input tensors except via SliceAssign.  *)
(* When the store holds no SliceAssign node, every leaf tensor reads the   *)
(* same after the passes of a resolve have run as before.                  *)
(***************************************************************************)
LeafKeys == {key \in Keys : nodes[key].kind = "Tensor"}

C3_LeavesUnchanged ==
    (submitted /\ \A key \in Keys : nodes[key].kind # "SliceAssign") =>
        \A leaf \in LeafKeys :
            Read(nodes[leaf].tensor, buffers) = Read(nodes[leaf].tensor, before)

(***************************************************************************)
(* C4: no read-after-write hazards between recorded passes.  Every kernel  *)
(* other than SliceAssign writes a buffer of its own: not a buffer of a    *)
(* leaf tensor, and not a buffer that it or an earlier pass reads, so what *)
(* the second operand of a binary node reads is what it read before the    *)
(* passes of the first operand were recorded.                              *)
(***************************************************************************)
InputBuffers(pass) == {pass.inputs[i].buffer : i \in 1..Len(pass.inputs)}

LeafBuffers == {nodes[leaf].tensor.buffer : leaf \in LeafKeys}

C4_NoHazard ==
    \A i \in 1..Len(encoder) :
        encoder[i].kind \notin {"SliceAssign", "QueryResolve"} =>
            /\ encoder[i].output.buffer \notin LeafBuffers
            /\ \A j \in 1..i : encoder[i].output.buffer \notin InputBuffers(encoder[j])

(***************************************************************************)
(* C5: resolving a Tensor leaf returns the stored handle (same buffer,     *)
(* layout and dtype) and records no pass, in every state, also after other *)
(* keys of the graph have been resolved.                                   *)
(***************************************************************************)
C5_LeafResolvesToItself ==
    \A i \in 1..Len(batch) :
        nodes[batch[i].key].kind = "Tensor" =>
            /\ batch[i].tensor = nodes[batch[i].key].tensor
            /\ CallPasses(i) = <<>>

\* a leaf was resolved on an encoder that already held the pass of another key
C5_Witness ==
    /\ Len(batch) = 2
    /\ nodes[batch[1].key].kind # "Tensor"
    /\ nodes[batch[2].key].kind = "Tensor"
    /\ encoder # <<>>
    /\ batch[2].tensor = nodes[batch[2].key].tensor

(***************************************************************************)
(* C9: MapLayout never emits a compute pass.  The passes recorded by the   *)
(* resolve of a MapLayout node are exactly those recorded by the resolve   *)
(* of its input, and the tensor returned is a view of the same buffer.     *)
(***************************************************************************)
C9_MapLayoutRecordsNoPass ==
    \A i \in 1..Len(batch) :
        nodes[batch[i].key].kind = "MapLayout" =>
            LET input == Resolve(nodes[batch[i].key].input,
                                 SubSeq(encoder, 1, batch[i].start),
                                 SubSeq(buffers, 1, batch[i].base))
            IN  /\ SubSeq(encoder, 1, CallEnd(i)) = input.encoder
                /\ batch[i].tensor.buffer = input.tensor.buffer
                /\ batch[i].tensor.dtype = input.tensor.dtype

\* a MapLayout node over a node that records a pass has been resolved
C9_Witness ==
    /\ Len(batch) = 1
    /\ nodes[batch[1].key].kind = "MapLayout"
    /\ nodes[nodes[batch[1].key].input].kind = "ElementWise"
    /\ PassKinds(encoder) = <<"ElementWise">>
    /\ batch[1].tensor.shape # nodes[Producer(nodes[batch[1].key].input)].tensor.shape

(***************************************************************************)
(* C6: a chain of n >= 1 ElementWise nodes over a leaf tensor is fused     *)
(* into a single dispatch: its resolve records exactly one compute pass,   *)
(* whatever n and whatever the size of the tensor, 16,777,216 elements     *)
(* included.                                                               *)
(***************************************************************************)
BUF_SIZE == 16777216

\* the encoder after a kernel of these functions ran on a tensor of BUF_SIZE
\* elements
LargeRun(functions) ==
    RunWithQuery(UntypedElementWiseKernel(functions, "i32"),
                 NewTensor(1, <<BUF_SIZE>>), FALSE, <<>>).encoder

C6_ChainIsOneDispatch ==
    \A i \in 1..Len(batch) :
        IsChainOverLeaf(batch[i].key) =>
            /\ PassKinds(CallPasses(i)) = <<"ElementWise">>
            /\ CallPasses(i)[1].module.body =
                    Reverse(ChainOperations(batch[i].key))
            /\ PassKinds(LargeRun(ChainFunctions(batch[i].key))) = <<"ElementWise">>

\* a chain of two nodes over a leaf has been resolved
C6_Witness ==
    /\ Len(batch) = 1
    /\ IsChainOverLeaf(batch[1].key)
    /\ Len(ChainFunctions(batch[1].key)) = 2
    /\ Len(encoder) = 1

(***************************************************************************)
(* C7: an ElementWise chain over a Reduce over an ElementWise chain over a *)
(* leaf resolves to exactly one reduce dispatch and no standalone          *)
(* elementwise dispatch: the chain below the reduce is its pre stage, the  *)
(* chain above it its post stage.                                          *)
(***************************************************************************)
IsChainReduceChain(key) ==
    /\ nodes[key].kind = "ElementWise"
    /\ nodes[Producer(key)].kind = "Reduce"
    /\ IsChainOverLeaf(nodes[Producer(key)].value)

C7_ReduceCarriesBothChains ==
    \A i \in 1..Len(batch) :
        IsChainReduceChain(batch[i].key) =>
            LET reduce == nodes[Producer(batch[i].key)]
                passes == CallPasses(i)
            IN  /\ PassKinds(passes) = <<"Reduce">>
                /\ passes[1].pre = <<ChainFunctions(reduce.value)>>
                /\ passes[1].post = ChainFunctions(batch[i].key)
                /\ passes[1].inputs = <<nodes[Producer(reduce.value)].tensor>>

\* sum(x + 1, axis 0) + 1 over a leaf has been resolved
C7_Witness ==
    /\ Len(batch) = 1
    /\ IsChainReduceChain(batch[1].key)
    /\ Len(encoder) = 1
    /\ Len(encoder[1].pre[1]) = 1
    /\ Len(encoder[1].post) = 1

(***************************************************************************)
(* C8: one pairwise kernel carries up to three elementwise chains.  The    *)
(* resolve of a chain over a PairWise node builds one pairwise kernel      *)
(* whose pre-first, pre-second and post stages are the function lists of   *)
(* the chain on its first input, on its second input and on its output;    *)
(* it records no standalone elementwise pass, and nothing but the pairwise *)
(* pass when both chains end on leaves.                                    *)
(***************************************************************************)
C8_PairWiseCarriesThreeChains ==
    \A i \in 1..Len(batch) :
        nodes[Producer(batch[i].key)].kind = "PairWise" =>
            LET pair == nodes[Producer(batch[i].key)]
                passes == CallPasses(i)
                last == passes[Len(passes)]
            IN  /\ passes # <<>>
                /\ last.kind = "PairWise"
                /\ last.pre = <<ChainFunctions(pair.first), ChainFunctions(pair.second)>>
                /\ last.post = ChainFunctions(batch[i].key)
                /\ \A j \in 1..Len(passes) : passes[j].kind # "ElementWise"
                /\ (/\ nodes[Producer(pair.first)].kind = "Tensor"
                    /\ nodes[Producer(pair.second)].kind = "Tensor") =>
                        /\ Len(passes) = 1
                        /\ last.inputs = <<nodes[Producer(pair.first)].tensor,
                                           nodes[Producer(pair.second)].tensor>>

\* a chain over a PairWise node with a chain on each input has been resolved
C8_Witness ==
    /\ Len(batch) = 1
    /\ nodes[batch[1].key].kind = "ElementWise"
    /\ nodes[Producer(batch[1].key)].kind = "PairWise"
    /\ nodes[nodes[Producer(batch[1].key)].first].kind = "ElementWise"
    /\ nodes[nodes[Producer(batch[1].key)].second].kind = "ElementWise"
    /\ PassKinds(encoder) = <<"PairWise">>
    /\ Len(encoder[1].pre[1]) = 1
    /\ Len(encoder[1].pre[2]) = 1
    /\ Len(encoder[1].post) = 1

(***************************************************************************)
(* C10: path selection follows contiguity only.  A run on a contiguous     *)
(* tensor dispatches the dense module and populates the dense slot; a run  *)
(* on a non-contiguous tensor dispatches the strided module and populates  *)
(* the strided slot; no run writes the slot of the other path, and a slot  *)
(* once populated keeps its module.                                        *)
(***************************************************************************)
\* the kernel as the i-th run left it
KernelAfter(i) == IF i < Len(runs) THEN runs[i + 1].kernel ELSE kernel

\* the compute pass the i-th run recorded
RunPass(i) == encoder[runs[i].start + 1]

SlicedView == MapLayoutRun(<<<<0, 3>>, <<0, 1>>>>, NewTensor(1, <<3, 2>>))

C10_PathFollowsContiguity ==
    \A i \in 1..Len(runs) :
        LET old == runs[i].kernel
            new == KernelAfter(i)
            pass == RunPass(i)
        IN  IF IsContiguous(runs[i].tensor)
            THEN /\ pass.module.contiguous
                 /\ new.dense_kernel = <<pass.module>>
                 /\ new.sparse_kernel = old.sparse_kernel
                 /\ old.dense_kernel # <<>> => new.dense_kernel = old.dense_kernel
            ELSE /\ ~pass.module.contiguous
                 /\ new.sparse_kernel = <<pass.module>>
                 /\ new.dense_kernel = old.dense_kernel
                 /\ old.sparse_kernel # <<>> => new.sparse_kernel = old.sparse_kernel

\* a fresh kernel ran on the [3,2] tensor sliced to [0..3, 0..1] and then on a
\* whole tensor
C10_Witness ==
    /\ Len(runs) = 2
    /\ runs[1].tensor = SlicedView
    /\ ~IsContiguous(SlicedView)
    /\ runs[1].kernel.dense_kernel = <<>>
    /\ runs[1].kernel.sparse_kernel = <<>>
    /\ runs[2].kernel.dense_kernel = <<>>
    /\ runs[2].kernel.sparse_kernel # <<>>
    /\ IsContiguous(runs[2].tensor)
    /\ kernel.dense_kernel # <<>>
    /\ kernel.sparse_kernel = runs[2].kernel.sparse_kernel

(***************************************************************************)
(* C11: recursion order is left before right.  In the resolve of a         *)
(* PairWise, MatMul or SliceAssign node the passes of the first operand    *)
(* (first / input) come first in the encoder, then the passes of the       *)
(* second operand (second / value), then the pass of the node itself,      *)
(* which reads the two tensors so produced.                                *)
(***************************************************************************)
BinaryKinds == {"PairWise", "MatMul", "SliceAssign"}

\* the key resolved for the first and for the second operand of a binary node
FirstOperand(key) ==
    CASE nodes[key].kind = "PairWise" -> CollectElementWiseOps(nodes[key].first).key
      [] nodes[key].kind = "MatMul" -> nodes[key].first
      [] nodes[key].kind = "SliceAssign" -> nodes[key].input

SecondOperand(key) ==
    CASE nodes[key].kind = "PairWise" -> CollectElementWiseOps(nodes[key].second).key
      [] nodes[key].kind = "MatMul" -> nodes[key].second
      [] nodes[key].kind = "SliceAssign" -> nodes[key].value

\* the encoder and the memory as the i-th call of the batch found them
EncoderAt(i) == SubSeq(encoder, 1, batch[i].start)

BuffersAt(i) == SubSeq(buffers, 1, batch[i].base)

C11_LeftBeforeRight ==
    \A i \in 1..Len(batch) :
        nodes[batch[i].key].kind \in BinaryKinds =>
            LET key == batch[i].key
                first == Resolve(FirstOperand(key), EncoderAt(i), BuffersAt(i))
                second == Resolve(SecondOperand(key), first.encoder, first.buffers)
                own == encoder[CallEnd(i)]
            IN  /\ CallEnd(i) = Len(second.encoder) + 1
                /\ SubSeq(encoder, 1, Len(first.encoder)) = first.encoder
                /\ SubSeq(encoder, 1, Len(second.encoder)) = second.encoder
                /\ own.kind = nodes[key].kind
                /\ own.inputs = <<first.tensor, second.tensor>>

\* a MatMul node whose operands record passes of different kinds
C11_Witness ==
    /\ Len(batch) = 1
    /\ nodes[batch[1].key].kind = "MatMul"
    /\ nodes[nodes[batch[1].key].first].kind = "PairWise"
    /\ nodes[nodes[batch[1].key].second].kind = "MatMul"
    /\ PassKinds(encoder) = <<"PairWise", "MatMul", "MatMul">>

(***************************************************************************)
(* C12: empty-fusion degeneracy.  A run of an elementwise kernel whose     *)
(* function list is empty records no compute pass, and the passes it       *)
(* records leave the buffer of the tensor as it was.                       *)
(***************************************************************************)
\* the passes the i-th run recorded
RunEnd(i) == IF i < Len(runs) THEN runs[i + 1].start ELSE Len(encoder)

RunPasses(i) == SubSeq(encoder, runs[i].start + 1, RunEnd(i))

C12_EmptyKernelSkipsDispatch ==
    \A i \in 1..Len(runs) :
        runs[i].kernel.functions = <<>> =>
            /\ \A j \in 1..Len(RunPasses(i)) : RunPasses(i)[j].kind # "ElementWise"
            /\ Execute(RunPasses(i), buffers) = buffers

Flatten(lists) ==
    IF Len(lists) = 0 THEN <<>>
    ELSE IF Len(lists) = 1 THEN lists[1]
    ELSE lists[1] \o lists[2]

\* all the functions handed to the kernel of a pass with fused stages
StageFunctions(pass) == Flatten(pass.pre) \o pass.post

DistinctIds(functions) ==
    \A i, j \in 1..Len(functions) :
        i # j => functions[i].name_id # functions[j].name_id

C14_UniqueIdsDistinct ==
    /\ \A key \in Keys :
            nodes[key].kind = "ElementWise" =>
                DistinctIds(CollectElementWiseOps(key).functions)
    /\ \A i \in 1..Len(encoder) :
            encoder[i].kind \in {"PairWise", "Reduce"} =>
                DistinctIds(StageFunctions(encoder[i]))

(***************************************************************************)
(* C15: a chain whose producer is a Tensor, MapLayout, MatMul, Resize or   *)
(* SliceAssign runs as one standalone elementwise pass after all passes of *)
(* the producer; and MatMul, Resize and SliceAssign never absorb a chain   *)
(* on their inputs: every such chain is recorded as an elementwise pass    *)
(* of its own before the pass of the MatMul, Resize or SliceAssign.        *)
(***************************************************************************)
MaterializedKinds == {"Tensor", "MapLayout", "MatMul", "Resize", "SliceAssign"}

OpaqueKinds == {"MatMul", "Resize", "SliceAssign"}

LastPass(enc) == enc[Len(enc)]

\* the chain of key ran as a pass of its own, the last one of enc
OwnElementWisePass(key, enc) ==
    /\ enc # <<>>
    /\ LastPass(enc).kind = "ElementWise"
    /\ LastPass(enc).module.body = Reverse(ChainOperations(key))

\* the chain of key went into the post stage of the kernel of its producer
FusedIntoProducer(key, enc) ==
    /\ enc # <<>>
    /\ LastPass(enc).kind = nodes[Producer(key)].kind
    /\ LastPass(enc).post = ChainFunctions(key)

\* the resolves of the operands of the i-th call, one after the other
OperandResolve(i, n) ==
    LET inputs == Inputs(nodes[batch[i].key])
        first == Resolve(inputs[1], EncoderAt(i), BuffersAt(i))
    IN  IF n = 1 THEN first ELSE Resolve(inputs[2], first.encoder, first.buffers)

\* the chain over a materialized producer: one pass, after those of the producer
ChainAfterProducer(i) ==
    LET key == batch[i].key
        producer == Resolve(Producer(key), EncoderAt(i), BuffersAt(i))
    IN  /\ CallEnd(i) = Len(producer.encoder) + 1
        /\ SubSeq(encoder, 1, Len(producer.encoder)) = producer.encoder
        /\ OwnElementWisePass(key, SubSeq(encoder, 1, CallEnd(i)))
        /\ encoder[CallEnd(i)].inputs = <<producer.tensor>>

\* the pass of an opaque node carries no stage and comes after its operands
OpaquePassLast(i) ==
    LET operands == Len(Inputs(nodes[batch[i].key]))
        last == OperandResolve(i, operands)
    IN  /\ CallEnd(i) = Len(last.encoder) + 1
        /\ SubSeq(encoder, 1, Len(last.encoder)) = last.encoder
        /\ encoder[CallEnd(i)].kind = nodes[batch[i].key].kind
        /\ encoder[CallEnd(i)].pre = <<>>
        /\ encoder[CallEnd(i)].post = <<>>

IsChainOverMaterialized(key) ==
    /\ nodes[key].kind = "ElementWise"
    /\ nodes[Producer(key)].kind \in MaterializedKinds

C15_ChainsAreOwnPasses ==
    \A i \in 1..Len(batch) :
        /\ IsChainOverMaterialized(batch[i].key) => ChainAfterProducer(i)
        /\ nodes[batch[i].key].kind \in OpaqueKinds =>
            /\ OpaquePassLast(i)
            /\ \A n \in 1..Len(Inputs(nodes[batch[i].key])) :
                  nodes[Inputs(nodes[batch[i].key])[n]].kind = "ElementWise" =>
                      OwnElementWisePass(Inputs(nodes[batch[i].key])[n],
                                         OperandResolve(i, n).encoder)

\* C15 as amended: a chain on an input of a MatMul, Resize or SliceAssign is
\* recorded before that node's pass and outside its kernel, as a pass of its
\* own when its producer is materialized and as the post stage of its
\* producer's kernel when that is a Reduce or a PairWise.
C15_ChainsStayOutsideOpaqueKernels ==
    \A i \in 1..Len(batch) :
        /\ IsChainOverMaterialized(batch[i].key) => ChainAfterProducer(i)
        /\ nodes[batch[i].key].kind \in OpaqueKinds =>
            /\ OpaquePassLast(i)
            /\ \A n \in 1..Len(Inputs(nodes[batch[i].key])) :
                  LET operand == Inputs(nodes[batch[i].key])[n]
                  IN  nodes[operand].kind = "ElementWise" =>
                          IF IsChainOverMaterialized(operand)
                          THEN OwnElementWisePass(operand, OperandResolve(i, n).encoder)
                          ELSE FusedIntoProducer(operand, OperandResolve(i, n).encoder)

\* a Resize over a chain over a MatMul: three passes, the chain in the middle
C15_Witness ==
    /\ Len(batch) = 1
    /\ nodes[batch[1].key].kind = "Resize"
    /\ IsChainOverMaterialized(nodes[batch[1].key].input)
    /\ PassKinds(encoder) = <<"MatMul", "ElementWise", "Resize">>

(***************************************************************************)
(* C16: resolve terminates on every graph the store can hold.  The walk of *)
(* collect_element_wise_ops ends at the first input that is no ElementWise *)
(* node, with a non-empty list of functions, the one nearest the root      *)
(* first, and a key that is no ElementWise key; and every resolve call     *)
(* made while resolving a key is on a key inserted before it, so the depth *)
(* of the recursion is bounded by the position of the key in the store.    *)
(***************************************************************************)
\* the key resolve_reduce_then and resolve_pair_wise_then resolve for an input
PeeledInput(input) ==
    IF nodes[input].kind = "ElementWise" THEN CollectElementWiseOps(input).key
    ELSE input

\* the keys on which the resolve of key calls resolve itself
ResolveCalls(key) ==
    LET operation == nodes[key]
        fused(k) ==
            IF nodes[k].kind = "Reduce" THEN {PeeledInput(nodes[k].value)}
            ELSE {PeeledInput(nodes[k].first), PeeledInput(nodes[k].second)}
    IN  CASE operation.kind = "ElementWise" ->
                LET input == CollectElementWiseOps(key).key
                IN  IF nodes[input].kind \in {"Reduce", "PairWise"}
                    THEN fused(input) ELSE {input}
          [] operation.kind \in {"Reduce", "PairWise"} -> fused(key)
          [] operation.kind = "MatMul" -> {operation.first, operation.second}
          [] operation.kind = "MapLayout" -> {operation.input}
          [] operation.kind = "Resize" -> {operation.input}
          [] operation.kind = "SliceAssign" -> {operation.input, operation.value}
          [] operation.kind = "Tensor" -> {}

Max(set) == CHOOSE x \in set : \A y \in set : y <= x

\* the number of nested resolve calls that the resolve of key makes
RECURSIVE ResolveDepth(_)
ResolveDepth(key) ==
    1 + Max({0} \cup {ResolveDepth(callee) : callee \in ResolveCalls(key)})

C16_ResolveTerminates ==
    \A key \in Keys :
        /\ nodes[key].kind = "ElementWise" =>
            LET collected == CollectElementWiseOps(key)
            IN  /\ collected.functions # <<>>
                /\ collected.functions[1] = nodes[key].function
                /\ \A n \in 1..(Len(collected.functions) - 1) :
                      \E k \in Keys :
                          /\ nodes[k].kind = "ElementWise"
                          /\ nodes[k].function = collected.functions[n]
                          /\ nodes[nodes[k].value].kind = "ElementWise"
                          /\ nodes[nodes[k].value].function = collected.functions[n + 1]
                /\ nodes[collected.key].kind # "ElementWise"
                /\ collected.key < key
        /\ \A callee \in ResolveCalls(key) : callee \in Keys /\ callee < key
        /\ ResolveDepth(key) <= key

\* a chain of two nodes over a Reduce node has been resolved to its end
C16_Witness ==
    /\ Len(batch) = 1
    /\ Len(nodes) = 4
    /\ nodes[4].kind = "ElementWise"
    /\ nodes[3].kind = "ElementWise"
    /\ nodes[2].kind = "Reduce"
    /\ batch[1].key = 4
    /\ Len(CollectElementWiseOps(4).functions) = 2
    /\ ResolveDepth(4) = 2
    /\ PassKinds(encoder) = <<"Reduce">>

(***************************************************************************)
(* C17: dense path coverage.  With N the product of the shape, BLOCKSIZE   *)
(* 256 and ceil(N / (TILE_SIZE * BLOCKSIZE)) workgroups on x, invocation g *)
(* handling the indices g * TILE_SIZE + k for k in 0..TILE_SIZE - 1 that   *)
(* are below N, every index in 0..N-1 is loaded, transformed and stored    *)
(* exactly once and no index from N on is read or written.                 *)
(***************************************************************************)
\* the pairs <<g, k>> of an invocation and a loop step whose guard holds
DenseAccesses(pass) ==
    {access \in (0..(Invocations(pass, 1) - 1)) \X (0..(TILE_SIZE - 1)) :
        access[1] * TILE_SIZE + access[2] < Product(UniformShape(pass))}

DenseIndex(access) == access[1] * TILE_SIZE + access[2]

\* the latest run took the dense path with a shader built for its layout
LatestRunIsDense ==
    /\ runs # <<>>
    /\ IsContiguous(runs[Len(runs)].tensor)
    /\ RunPass(Len(runs)).module.rank = Rank(runs[Len(runs)].tensor)

C17_DenseCoverage ==
    LatestRunIsDense =>
        LET pass == RunPass(Len(runs))
            tensor == runs[Len(runs)].tensor
            N == Product(tensor.shape)
            old == buffers[tensor.buffer]
            new == ExecElementWise(pass, buffers)[tensor.buffer]
        IN  /\ pass.module.blocksize = MaxBlocksize
            /\ pass.workgroups = <<DivCeil(N, TILE_SIZE * MaxBlocksize), 1, 1>>
            /\ {DenseIndex(access) : access \in DenseAccesses(pass)} = 0..(N - 1)
            /\ Cardinality(DenseAccesses(pass)) = N
            /\ \A a \in 1..Len(old) :
                  new[a] = IF a <= N THEN RunBodies(pass.module.body, old[a])
                           ELSE old[a]
            /\ DenseHandled(LargeRun(<<>>)[1], BUF_SIZE - 1)
            /\ ~DenseHandled(LargeRun(<<>>)[1], BUF_SIZE)

\* a run on one element more than a workgroup handles: two workgroups
C17_Witness ==
    /\ LatestRunIsDense
    /\ Product(runs[Len(runs)].tensor.shape) = DenseSpan + 1
    /\ RunPass(Len(runs)).workgroups = <<2, 1, 1>>
    /\ RunPass(Len(runs)).module.body # <<>>

(***************************************************************************)
(* C18: strided path coverage.  With ceil(shape_i / (TILE_SIZE *           *)
(* BLOCKSIZE)) workgroups on dimension i (1 on unused dimensions),         *)
(* BLOCKSIZE invocations per used axis and TILE_SIZE loop steps per        *)
(* invocation and axis, every multi-index within the shape is processed    *)
(* exactly once, at the address offset + sum of stride_i * index_i, and no *)
(* multi-index outside the shape is read or written; axis 0 is x, axis 1   *)
(* is y and axis 2 is z in the shader and in the dispatch.                 *)
(***************************************************************************)
\* the pairs <<g, l>> of a global id and a loop step along one axis whose
\* guard on that axis holds
AxisAccesses(pass, axis) ==
    {access \in (0..(Invocations(pass, axis) - 1)) \X (0..(TILE_SIZE - 1)) :
        access[1] * TILE_SIZE + access[2] < UniformShape(pass)[axis]}

MergedIndex(access) == access[1] * TILE_SIZE + access[2]

\* the 0-based addresses of the elements of a view
ViewAddresses(t) == {Address(t, index) : index \in MultiIndices(t.shape)}

\* the latest run took the strided path with a shader built for its layout
LatestRunIsStrided ==
    /\ runs # <<>>
    /\ ~IsContiguous(runs[Len(runs)].tensor)
    /\ RunPass(Len(runs)).module.rank = Rank(runs[Len(runs)].tensor)

C18_StridedCoverage ==
    LatestRunIsStrided =>
        LET pass == RunPass(Len(runs))
            tensor == runs[Len(runs)].tensor
            rank == Rank(tensor)
            old == buffers[tensor.buffer]
            new == ExecElementWise(pass, buffers)[tensor.buffer]
        IN  /\ pass.module.blocksize = FloorRoot(rank)
            /\ \A axis \in 1..3 :
                  pass.workgroups[axis] =
                      IF axis <= rank
                      THEN DivCeil(tensor.shape[axis], TILE_SIZE * FloorRoot(rank))
                      ELSE 1
            /\ \A axis \in 1..rank :
                  /\ {MergedIndex(access) : access \in AxisAccesses(pass, axis)} =
                         0..(tensor.shape[axis] - 1)
                  /\ Cardinality(AxisAccesses(pass, axis)) = tensor.shape[axis]
            /\ \A a \in 1..Len(old) :
                  new[a] = IF (a - 1) \in ViewAddresses(tensor)
                           THEN RunBodies(pass.module.body, old[a])
                           ELSE old[a]

\* a run on a view whose axis 1 needs a second workgroup on y
C18_Witness ==
    /\ LatestRunIsStrided
    /\ runs[Len(runs)].tensor.shape = <<1, LongExtent(2)>>
    /\ RunPass(Len(runs)).workgroups = <<1, MaxStridedGroups + 1, 1>>
    /\ RunPass(Len(runs)).module.body # <<>>

(***************************************************************************)
(* C19: workgroup sizing.  On the dense path BLOCKSIZE is 256 and the      *)
(* workgroup is (BLOCKSIZE, 1, 1); on the strided path BLOCKSIZE is        *)
(* floor(256^(1/rank)), that is 256, 16 and 6 for rank 1, 2 and 3, the     *)
(* workgroup has BLOCKSIZE on each of the rank axes, and BLOCKSIZE^rank    *)
(* <= 256 < (BLOCKSIZE + 1)^rank.                                          *)
(***************************************************************************)
\* the block size that run_with_query computes for the dispatch of the i-th run
DispatchBlocksize(i) == MaxBlocksizeFor(runs[i].tensor)

C19_WorkgroupSizing ==
    /\ <<FloorRoot(1), FloorRoot(2), FloorRoot(3)>> = <<256, 16, 6>>
    /\ \A i \in 1..Len(runs) :
          LET module == RunPass(i).module
              size == WorkgroupSize(module)
          IN  /\ DispatchBlocksize(i) =
                    IF IsContiguous(runs[i].tensor) THEN 256
                    ELSE <<256, 16, 6>>[Rank(runs[i].tensor)]
              /\ IF module.contiguous
                 THEN /\ module.blocksize = 256
                      /\ size = <<256, 1, 1>>
                 ELSE /\ module.blocksize = <<256, 16, 6>>[module.rank]
                      /\ \A axis \in 1..3 :
                            size[axis] = IF axis <= module.rank
                                         THEN module.blocksize ELSE 1
                      /\ Power(module.blocksize, module.rank) <= 256
                      /\ Power(module.blocksize + 1, module.rank) > 256
              /\ size[1] * size[2] * size[3] <= 256

\* a run on a strided view of rank 3 and a run on a whole tensor of rank 2
C19_Witness ==
    /\ Len(runs) = 2
    /\ IsContiguous(runs[2].tensor)
    /\ Rank(runs[2].tensor) = 2
    /\ WorkgroupSize(RunPass(2).module) = <<256, 1, 1>>
    /\ ~IsContiguous(runs[1].tensor)
    /\ Rank(runs[1].tensor) = 3
    /\ WorkgroupSize(RunPass(1).module) = <<6, 6, 6>>

(***************************************************************************)
(* C20: over any sequence of run_with_query calls on one kernel instance,  *)
(* each of the two shader slots is written at most once and never          *)
(* overwritten, so at most two shader modules are created, while the       *)
(* pipeline, the layout uniform and the bind group are built anew by every *)
(* call: the pipeline from the module in the slot, the other two from the  *)
(* tensor of that call.                                                    *)
(***************************************************************************)
\* the i-th run found the slot of its path empty and created a module
CreatedModule(i) ==
    IF IsContiguous(runs[i].tensor) THEN runs[i].kernel.dense_kernel = <<>>
    ELSE runs[i].kernel.sparse_kernel = <<>>

ModulesCreated == Cardinality({i \in 1..Len(runs) : CreatedModule(i)})

\* a populated slot keeps its module over the step
SlotKept(old, new) == old # <<>> => new = old

C20_SlotsWrittenOnce ==
    [][/\ SlotKept(kernel.dense_kernel, kernel'.dense_kernel)
       /\ SlotKept(kernel.sparse_kernel, kernel'.sparse_kernel)
       /\ ModulesCreated' <= 2
       /\ ModulesCreated' =
              Len(kernel'.dense_kernel) + Len(kernel'.sparse_kernel)
                  - Len(runs[1].kernel.dense_kernel)' - Len(runs[1].kernel.sparse_kernel)'
       /\ LET pass == encoder'[Len(encoder) + 1]
              tensor == runs'[Len(runs')].tensor
          IN  /\ Len(runs') = Len(runs) + 1
              /\ pass.kind = "ElementWise"
              /\ pass.module = IF IsContiguous(tensor) THEN kernel'.dense_kernel[1]
                                ELSE kernel'.sparse_kernel[1]
              /\ pass.uniform = LayoutData(tensor)
              /\ pass.inputs = <<tensor>>]_vars

\* three runs of one instance: the third found the slot of its path populated
C20_Witness ==
    /\ Len(runs) = 3
    /\ ModulesCreated = 2
    /\ ~CreatedModule(3)
    /\ runs[3].tensor # runs[1].tensor
    /\ runs[3].tensor # runs[2].tensor
    /\ RunPass(3).uniform = LayoutData(runs[3].tensor)
    /\ RunPass(3).uniform # RunPass(1).uniform

(***************************************************************************)
(* C21: each elementwise dispatch makes its calls in one fixed order:      *)
(* shader module obtained, pipeline built, layout uniform uploaded, bind   *)
(* group created, compute pass begun, pipeline set, bind group set,        *)
(* workgroups dispatched, pass ended.  The query is resolved into the      *)
(* encoder exactly when a query was provided, and then right after the     *)
(* pass has ended; the passes a resolve records carry no query and no      *)
(* resolve records a query resolution.                                     *)
(***************************************************************************)
DispatchOrder ==
    <<"get_or_init", "create_compute_pipeline", "create_buffer_init",
      "create_bind_group", "begin_compute_pass", "set_pipeline",
      "set_bind_group", "dispatch_workgroups", "end_pass">>

\* the order of the i-th direct run: the query's resolution last, if any
OrderOfRun(i) ==
    DispatchOrder \o (IF runs[i].query THEN <<"resolve_query">> ELSE <<>>)

\* the entries of the trace that the i-th direct run made
RunCalls(i) ==
    LET OfRun(e) == e.run = i
    IN  SelectSeq(trace, OfRun)

\* the names of the calls the order speaks about, as the i-th run made them
OrderedCalls(i) ==
    LET Ordered(e) ==
            \E j \in 1..Len(OrderOfRun(i)) : e.call = OrderOfRun(i)[j]
        calls == SelectSeq(RunCalls(i), Ordered)
    IN  [j \in 1..Len(calls) |-> calls[j].call]

IsPrefix(a, b) == Len(a) <= Len(b) /\ a = SubSeq(b, 1, Len(a))

\* the i-th direct run has returned
Finished(i) == i < Len(runs) \/ pc = 0

\* the encoder positions at which direct runs with a query put their pass
\* and the resolution of their query
QueryPassPositions == {runs[i].start + 1 : i \in {r \in 1..Len(runs) : runs[r].query}}
QueryResolvePositions == {runs[i].start + 2 : i \in {r \in 1..Len(runs) : runs[r].query}}

C21_FixedDispatchOrder ==
    /\ \A i \in 1..Len(runs) :
          /\ IsPrefix(OrderedCalls(i), OrderOfRun(i))
          /\ Finished(i) => OrderedCalls(i) = OrderOfRun(i)
          /\ \A j \in 1..Len(RunCalls(i)) :
                RunCalls(i)[j].timestamps =
                    (runs[i].query /\ RunCalls(i)[j].call = "begin_compute_pass")
          /\ Finished(i) =>
                LET atomic == RunWithQuery(runs[i].kernel, runs[i].tensor,
                                  runs[i].query, SubSeq(encoder, 1, runs[i].start))
                IN  /\ IsPrefix(atomic.encoder, encoder)
                    /\ encoder[runs[i].start + 1].kind = "ElementWise"
                    /\ encoder[runs[i].start + 1].timestamps = runs[i].query
                    /\ runs[i].query =>
                          encoder[runs[i].start + 2].kind = "QueryResolve"
                    /\ i = Len(runs) => kernel = atomic.kernel
    /\ \A j \in 1..(Len(trace) - 1) : trace[j].run <= trace[j + 1].run
    /\ \A j \in 1..Len(encoder) :
          /\ encoder[j].kind = "QueryResolve" <=> j \in QueryResolvePositions
          /\ encoder[j].timestamps <=> j \in QueryPassPositions

\* a resolve has recorded its pass between a direct run with a query, which
\* put the resolution of the query behind its pass, and one without
C21_Witness ==
    /\ pc = 0
    /\ Len(runs) = 2
    /\ runs[1].query /\ ~runs[2].query
    /\ Len(batch) = 1
    /\ batch[1].start = 2
    /\ runs[2].start = 3
    /\ PassKinds(encoder) = <<"ElementWise", "QueryResolve", "ElementWise", "ElementWise">>
    /\ OrderedCalls(1) = DispatchOrder \o <<"resolve_query">>
    /\ OrderedCalls(2) = DispatchOrder

(***************************************************************************)
(* C22: resolve only appends to the encoder and never submits it.  For     *)
(* every resolve call the passes on the encoder before the call are a      *)
(* prefix of the passes after it, every nested resolve appends to that     *)
(* same encoder (what it leaves is a prefix of what its caller leaves),    *)
(* and the op records of the graph store are unchanged by the call.        *)
(***************************************************************************)
\* the keys on which the resolve of key calls resolve, in call order
OperandKeys(key) ==
    LET operation == nodes[key]
        fused(k) ==
            IF nodes[k].kind = "Reduce" THEN <<PeeledInput(nodes[k].value)>>
            ELSE <<PeeledInput(nodes[k].first), PeeledInput(nodes[k].second)>>
    IN  CASE operation.kind = "ElementWise" ->
                LET input == CollectElementWiseOps(key).key
                IN  IF nodes[input].kind \in {"Reduce", "PairWise"}
                    THEN fused(input) ELSE <<input>>
          [] operation.kind \in {"Reduce", "PairWise"} -> fused(key)
          [] operation.kind = "MatMul" -> <<operation.first, operation.second>>
          [] operation.kind = "MapLayout" -> <<operation.input>>
          [] operation.kind = "Resize" -> <<operation.input>>
          [] operation.kind = "SliceAssign" -> <<operation.input, operation.value>>
          [] operation.kind = "Tensor" -> <<>>

\* the resolve of key, entered with encoder enc, and every resolve nested in
\* it leave an encoder that begins with the one they were entered with
RECURSIVE AppendsOnly(_, _, _)
AppendsOnly(key, enc, mem) ==
    LET result == Resolve(key, enc, mem)
        operands == OperandKeys(key)
        first == Resolve(operands[1], enc, mem)
        second == Resolve(operands[2], first.encoder, first.buffers)
    IN  /\ IsPrefix(enc, result.encoder)
        /\ Len(operands) >= 1 =>
              /\ AppendsOnly(operands[1], enc, mem)
              /\ IsPrefix(first.encoder, result.encoder)
        /\ Len(operands) = 2 =>
              /\ AppendsOnly(operands[2], first.encoder, first.buffers)
              /\ IsPrefix(second.encoder, result.encoder)

C22_ResolveOnlyAppends ==
    [][resolves' # resolves =>
          LET key == batch'[Len(batch')].key
              entered == IF submitted THEN <<>> ELSE encoder
          IN  /\ IsPrefix(entered, encoder')
              /\ AppendsOnly(key, entered, buffers)
              /\ encoder' = Resolve(key, entered, buffers).encoder
              /\ nodes' = nodes
              /\ ~submitted'
              /\ before' = before
              /\ IsPrefix(buffers, buffers')]_vars

\* a node with two operands has been resolved, and each of the two nested
\* resolves has put a pass of its own on the encoder before the node's
C22_Witness ==
    /\ Len(batch) = 1
    /\ ~submitted
    /\ Len(OperandKeys(batch[1].key)) = 2
    /\ Len(encoder) = 3
    /\ LET operands == OperandKeys(batch[1].key)
           first == Resolve(operands[1], <<>>, BuffersAt(1))
           second == Resolve(operands[2], first.encoder, first.buffers)
       IN  /\ Len(first.encoder) = 1
           /\ Len(second.encoder) = 2
           /\ second.encoder = SubSeq(encoder, 1, 2)

(***************************************************************************)
(* C23: both emission styles apply the same functions in the same order.   *)
(* For a function list collected root-first, inline emission puts the      *)
(* bodies in reversed list order and call-style emission nests the calls   *)
(* with the last list element innermost, so both apply the earliest        *)
(* producer first and the nearest-to-root function last, and they compute  *)
(* the same value for every input element.                                 *)
(***************************************************************************)
\* the value of data after what one emission put into the shader
Emitted(e, data) ==
    IF e.inline THEN RunBodies(e.body, data)
    ELSE EvalCall(e.call, e.functions, data)

\* f_1 first and f_n last, f_n being the head of the root-first list
RECURSIVE ProducerFirst(_, _)
ProducerFirst(functions, data) ==
    IF functions = <<>> THEN data
    ELSE ApplyOperation(Head(functions).operation,
                        ProducerFirst(Tail(functions), data))

C23_StylesAgree ==
    LET functions == kernel.functions
        n == Len(functions)
    IN  \A i \in 1..Len(trace) :
           /\ trace[i].inline =>
                 \A j \in 1..n : trace[i].body[j] = functions[n + 1 - j].operation
           /\ ~trace[i].inline =>
                 /\ Len(trace[i].call) = n
                 /\ \A j \in 1..n : trace[i].call[j] = functions[j].name_id
           /\ \A data \in 0..(ElementModulus - 1) :
                 /\ Emitted(trace[i], data) = ProducerFirst(functions, data)
                 /\ \A k \in 1..Len(trace) :
                       Emitted(trace[i], data) = Emitted(trace[k], data)

\* (x + 1) * 2 * 2 emitted in both styles: order matters to its value
C23_Witness ==
    /\ Len(trace) = 2
    /\ trace[1].inline /\ ~trace[2].inline
    /\ trace[1].body = <<"data = data + 1;", "data = data * 2;", "data = data * 2;">>
    /\ trace[2].call = <<2, 1, 0>>
    /\ Emitted(trace[1], 1) = 8
    /\ Emitted(trace[2], 1) = 8

(***************************************************************************)
(* C24: under any interleaving of ElementWiseFunction constructions from   *)
(* any number of threads, each construction obtains its id by one atomic   *)
(* fetch-and-add on the process-wide counter: no two constructions ever    *)
(* obtain the same id, and the ids handed out are exactly 0, 1, 2, ...     *)
(* with none skipped.                                                      *)
(***************************************************************************)
\* the threads that hold an id and have not handed their function back yet
Holding == {t \in Threads : threads[t].pc = "build"}

\* every id obtained so far
IdsObtained ==
    {trace[i].function.name_id : i \in 1..Len(trace)}
        \cup {threads[t].name_id : t \in Holding}

C24_IdsUniqueAndDense ==
    /\ \A i \in 1..Len(trace), j \in 1..Len(trace) :
          i # j => trace[i].function.name_id # trace[j].function.name_id
    /\ \A t \in Holding, u \in Holding : t # u => threads[t].name_id # threads[u].name_id
    /\ \A t \in Holding, i \in 1..Len(trace) :
          threads[t].name_id # trace[i].function.name_id
    /\ IdsObtained = 0..(counter - 1)
    /\ counter = Len(trace) + Cardinality(Holding)

\* three constructions overlap: thread 3 drew id 0 and has handed its
\* function back while threads 1 and 2 still hold the ids 2 and 1
C24_Witness ==
    /\ Len(trace) = 1
    /\ trace[1].thread = 3
    /\ trace[1].function.name_id = 0
    /\ threads[1].pc = "build" /\ threads[1].name_id = 2
    /\ threads[2].pc = "build" /\ threads[2].name_id = 1
    /\ counter = 3

(***************************************************************************)
(* C25: for every tree-shaped graph, one resolve puts the function of each *)
(* ElementWise node into exactly one kernel's function list, never dropped *)
(* and never duplicated.  A maximal ElementWise chain consumed by a        *)
(* PairWise or Reduce is that consumer's pre stage (and a Reduce or        *)
(* PairWise below it then has an empty post stage); otherwise a chain      *)
(* whose producer is a Reduce or PairWise is that producer's post stage;   *)
(* otherwise it is one standalone elementwise kernel.  The passes recorded *)
(* are therefore as many as the Reduce, PairWise, MatMul, Resize and       *)
(* SliceAssign nodes plus the standalone chains.                           *)
(***************************************************************************)
FusingKinds == {"Reduce", "PairWise"}

PassKindsOfNodes == {"Reduce", "PairWise", "MatMul", "Resize", "SliceAssign"}

\* the node of the graph under root that reads key, NoKey for the root
Consumer(root, key) ==
    LET readers == {c \in Reached(root) :
                       \E i \in 1..Len(Inputs(nodes[c])) : Inputs(nodes[c])[i] = key}
    IN  IF readers = {} THEN NoKey ELSE CHOOSE c \in readers : TRUE

\* the tops of the maximal ElementWise chains of the graph under root
ChainTops(root) ==
    {k \in Reached(root) :
        /\ nodes[k].kind = "ElementWise"
        /\ Consumer(root, k) = NoKey \/ nodes[Consumer(root, k)].kind # "ElementWise"}

\* the top of the maximal chain that the ElementWise node key lies in
RECURSIVE TopOf(_, _)
TopOf(root, key) ==
    IF key \in ChainTops(root) THEN key ELSE TopOf(root, Consumer(root, key))

\* where the rules put the chain with the given top
Role(root, top) ==
    IF Consumer(root, top) # NoKey /\ nodes[Consumer(root, top)].kind \in FusingKinds
    THEN "pre"
    ELSE IF nodes[Producer(top)].kind \in FusingKinds THEN "post"
    ELSE "standalone"

\* the stage an operand contributes to a fusing consumer
PreStage(operand) ==
    IF nodes[operand].kind = "ElementWise" THEN ChainFunctions(operand) ELSE <<>>

\* the post stage of a fusing node: the chain over it, unless its consumer took it
PostStage(root, node) ==
    LET over == {top \in ChainTops(root) : Producer(top) = node /\ Role(root, top) = "post"}
    IN  IF over = {} THEN <<>> ELSE ChainFunctions(CHOOSE top \in over : TRUE)

\* what a pass tells about the function lists of its kernel
Stages(pass) ==
    [kind |-> pass.kind, pre |-> pass.pre, post |-> pass.post,
     body |-> IF pass.kind = "ElementWise" THEN pass.module.body ELSE <<>>]

\* the same for the kernel the rules give a node and a standalone chain
StagesOfNode(root, node) ==
    [kind |-> nodes[node].kind,
     pre |-> CASE nodes[node].kind = "PairWise" ->
                     <<PreStage(nodes[node].first), PreStage(nodes[node].second)>>
               [] nodes[node].kind = "Reduce" -> <<PreStage(nodes[node].value)>>
               [] OTHER -> <<>>,
     post |-> IF nodes[node].kind \in FusingKinds THEN PostStage(root, node) ELSE <<>>,
     body |-> <<>>]

StagesOfChain(top) ==
    [kind |-> "ElementWise", pre |-> <<>>, post |-> <<>>,
     body |-> Reverse(ChainOperations(top))]

PassNodes(root) == {n \in Reached(root) : nodes[n].kind \in PassKindsOfNodes}

StandaloneTops(root) == {top \in ChainTops(root) : Role(root, top) = "standalone"}

\* every function handed to a fused stage of one of the passes
RECURSIVE AllStaged(_)
AllStaged(passes) ==
    IF passes = <<>> THEN <<>>
    ELSE StageFunctions(Head(passes)) \o AllStaged(Tail(passes))

\* the number of bodies in the standalone kernels of the passes
RECURSIVE BodiesRun(_)
BodiesRun(passes) ==
    IF passes = <<>> THEN 0
    ELSE Len(Stages(Head(passes)).body) + BodiesRun(Tail(passes))

Occurrences(s, x) == Cardinality({i \in 1..Len(s) : s[i] = x})

C25_EachFunctionInOneKernel ==
    \A i \in 1..Len(batch) :
        TreeShaped(batch[i].key) =>
            LET root == batch[i].key
                passes == CallPasses(i)
                recorded == [j \in 1..Len(passes) |-> Stages(passes[j])]
                elementwise == {k \in Reached(root) : nodes[k].kind = "ElementWise"}
                alone == {k \in elementwise : Role(root, TopOf(root, k)) = "standalone"}
                expected == {StagesOfNode(root, n) : n \in PassNodes(root)}
                                \cup {StagesOfChain(top) : top \in StandaloneTops(root)}
            IN  /\ Len(passes) =
                       Cardinality(PassNodes(root)) + Cardinality(StandaloneTops(root))
                /\ \A d \in expected \cup {recorded[j] : j \in 1..Len(recorded)} :
                       Occurrences(recorded, d) =
                           Cardinality({n \in PassNodes(root) : StagesOfNode(root, n) = d})
                           + Cardinality({top \in StandaloneTops(root) :
                                             StagesOfChain(top) = d})
                /\ \A k \in elementwise :
                       Occurrences(AllStaged(passes), nodes[k].function) =
                           IF k \in alone THEN 0 ELSE 1
                /\ Len(AllStaged(passes)) = Cardinality(elementwise \ alone)
                /\ BodiesRun(passes) = Cardinality(alone)

\* a chain between a PairWise and the Reduce that consumes it: the Reduce
\* takes it as its pre stage and the PairWise below is left an empty post stage
C25_Witness ==
    /\ Len(batch) = 1
    /\ TreeShaped(batch[1].key)
    /\ nodes[batch[1].key].kind = "Reduce"
    /\ nodes[nodes[batch[1].key].value].kind = "ElementWise"
    /\ nodes[Producer(nodes[batch[1].key].value)].kind = "PairWise"
    /\ PassKinds(encoder) = <<"PairWise", "Reduce">>
    /\ encoder[1].post = <<>>
    /\ Len(encoder[2].pre[1]) = 1
    /\ encoder[2].post = <<>>

(***************************************************************************)
(* C26: an elementwise kernel run on a tensor view reads and writes        *)
(* exactly the buffer elements that the layout of the view addresses       *)
(* (offset + sum of stride_i * index_i for every multi-index within the    *)
(* shape) and leaves every other element of the buffer unchanged, on the   *)
(* strided and on the dense path alike, also for a contiguous view whose   *)
(* offset is not zero.  Stated of the runs that built their shader, so     *)
(* that the shader is the one emitted for the layout of the run.           *)
(***************************************************************************)
\* the buffer of the i-th run after its pass alone has been executed
AfterRun(i) == ExecElementWise(RunPass(i), buffers)[runs[i].tensor.buffer]

EmittedFor(i) ==
    TiledMap(runs[i].kernel, MaxBlocksizeFor(runs[i].tensor), TRUE,
             IsContiguous(runs[i].tensor), runs[i].tensor)

C27_ModuleMatchesTensor ==
    \A i \in 1..Len(runs) :
        /\ RunPass(i).module = EmittedFor(i)
        /\ RunPass(i).module.rank = Rank(runs[i].tensor)
        /\ RunPass(i).module.blocksize = DispatchBlocksize(i)
        /\ Len(RunPass(i).uniform) = 1 + 2 * RunPass(i).module.rank

====
